---- MODULE Spec2Model ----
(***************************************************************************)
(* A model of the LedgerPro statement-processing pipeline:                 *)
(*   - pdf_processor_server.py  (Capital One line parser, forex lookahead) *)
(*   - camelot_processor.py     (row/line parsers, table selection, dedup) *)
(*   - csv_processor_*.py       (CSV amount and date parsers, formats)     *)
(*   - api_server_real.py       (job summaries, upload jobs, web sockets)  *)
(*   - api_server_secure.py     (job limits per IP, bearer sessions)       *)
(* Text is modelled as sequences of one-character strings, regular         *)
(* expressions as sequences of quantified character classes matched by a   *)
(* backtracking matcher with Python's priority order (greedy / lazy).      *)
(* Money is held in thousandths of a dollar (Mills); a parsed float is     *)
(* held exactly as sign, integer part and nine fractional digits.          *)
(* Each part of the pipeline has a specification of its own over its own   *)
(* variables; the variables of the other parts stay at their idle values.  *)
(***************************************************************************)
EXTENDS Integers, Sequences, FiniteSets, TLC

VARIABLES
    \* --- pdf_processor_server.parse_capital_one_transactions ---
    text,           \* str(row[0]) of the table row being parsed
    lines,          \* text.split('\n')
    i,              \* the outer line cursor (0-based, as in the code)
    transactions,   \* the list of emitted transactions
    pc,             \* "idle" | "row" | "loop" | "done" | "raised"
    visited,        \* history: the cursor values at which the loop body ran
    emitted_at,     \* history: the line index of each emitted transaction
    \* --- the row, line and amount parsers applied to one input ---
    rp_input,       \* the input: a table row, a cell, a text line or an amount string
    rp_parser,      \* the parser that ran ("none" before it ran)
    rp_result,      \* what it returned
    \* --- camelot_processor.deduplicate_transactions ---
    dd_input,       \* the `transactions` argument
    dd_enable,      \* enable_dedup
    dd_unique,      \* unique_transactions
    dd_k,           \* the number of candidates taken from the input so far
    dd_pc,          \* "idle" | "call" | "loop" | "done"
    \* --- camelot_processor.process_pdf ---
    pdf_doc,        \* the PDF: what camelot and pdfminer find in it
    pdf_k,          \* the number of detected tables already looked at
    pdf_tables,     \* `dataframes` / `tables`: the usable tables
    pdf_out,        \* transactions and extraction_method of the result
    pdf_pc,         \* "idle" | "tables" | "branch" | "done"
    \* --- the entry points applied to one document ---
    ep_doc,         \* the document: what the file system and the libraries report of it
    ep_out,         \* the result the entry point returned
    ep_pc,          \* "idle" | "call" | "done"
    \* --- api_server_real.py / api_server_secure.py ---
    processing_jobs,    \* job id -> job record
    file_hashes,        \* content hash -> job id
    active_connections, \* manager.active_connections: job id -> web socket
    tasks,              \* job id -> where its background task stands
    sockets,            \* web socket -> its handler's position, job id and received messages
    response,           \* the answer to the HTTP request of the latest step (<<>> if it handled none)
    ip_job_counts,      \* ip -> [count, reset_time]
    user_sessions,      \* token -> [expires_at]
    tokens_issued,      \* how many session tokens uuid4 has made
    now                 \* datetime.now(), in hours

capVars == <<text, lines, i, transactions, pc, visited, emitted_at>>
rpVars == <<rp_input, rp_parser, rp_result>>
ddVars == <<dd_input, dd_enable, dd_unique, dd_k, dd_pc>>
pdfVars == <<pdf_doc, pdf_k, pdf_tables, pdf_out, pdf_pc>>
epVars == <<ep_doc, ep_out, ep_pc>>
apiVars == <<processing_jobs, file_hashes, active_connections, tasks, sockets, response,
             ip_job_counts, user_sessions, tokens_issued, now>>
vars == <<capVars, rpVars, ddVars, pdfVars, epVars, apiVars>>

\* the idle values of each part
CapIdle ==
    /\ text = <<>> /\ lines = <<>> /\ i = 0 /\ transactions = <<>>
    /\ pc = "idle" /\ visited = {} /\ emitted_at = <<>>
RpIdle == rp_input = <<>> /\ rp_parser = "idle" /\ rp_result = <<>>
DdIdle == dd_input = <<>> /\ dd_enable = FALSE /\ dd_unique = <<>> /\ dd_k = 0 /\ dd_pc = "idle"
PdfIdle == pdf_doc = <<>> /\ pdf_k = 0 /\ pdf_tables = <<>> /\ pdf_out = <<>> /\ pdf_pc = "idle"
EpIdle == ep_doc = <<>> /\ ep_out = <<>> /\ ep_pc = "idle"
ApiIdle ==
    /\ processing_jobs = <<>> /\ file_hashes = <<>> /\ active_connections = <<>>
    /\ tasks = <<>> /\ sockets = <<>> /\ response = <<>>
    /\ ip_job_counts = <<>> /\ user_sessions = <<>> /\ tokens_issued = 0 /\ now = 0

\* what each part leaves alone
capOthers == <<rpVars, ddVars, pdfVars, epVars, apiVars>>
rpOthers == <<capVars, ddVars, pdfVars, epVars, apiVars>>
ddOthers == <<capVars, rpVars, pdfVars, epVars, apiVars>>
pdfOthers == <<capVars, rpVars, ddVars, epVars, apiVars>>
epOthers == <<capVars, rpVars, ddVars, pdfVars, apiVars>>
apiOthers == <<capVars, rpVars, ddVars, pdfVars, epVars>>

(***************************************************************************)
(* Characters and strings                                                  *)
(***************************************************************************)
Digits == {"0","1","2","3","4","5","6","7","8","9"}
UpperSeq == <<"A","B","C","D","E","F","G","H","I","J","K","L","M",
              "N","O","P","Q","R","S","T","U","V","W","X","Y","Z">>
LowerSeq == <<"a","b","c","d","e","f","g","h","i","j","k","l","m",
              "n","o","p","q","r","s","t","u","v","w","x","y","z">>
Upper == {UpperSeq[k] : k \in 1..26}
Lower == {LowerSeq[k] : k \in 1..26}
Alpha == Upper \cup Lower
WordChars == Alpha \cup Digits \cup {"_"}
Space == {" ", "\t", "\n"}
Punct == {"$", ",", ".", "-", "+", "(", ")", "#", "*", "/", ":"}
AnyChar == WordChars \cup Space \cup Punct
Dot == AnyChar \ {"\n"}

\* str.lower() / str.upper() on one character
LowerC(c) == IF c \in Upper THEN LowerSeq[CHOOSE k \in 1..26 : UpperSeq[k] = c] ELSE c
UpperC(c) == IF c \in Lower THEN UpperSeq[CHOOSE k \in 1..26 : LowerSeq[k] = c] ELSE c
LowerS(s) == [k \in 1..Len(s) |-> LowerC(s[k])]
UpperS(s) == [k \in 1..Len(s) |-> UpperC(s[k])]

Range(s) == {s[k] : k \in 1..Len(s)}

\* str.strip()
RECURSIVE LStrip(_)
LStrip(s) == IF s # <<>> /\ Head(s) \in Space THEN LStrip(Tail(s)) ELSE s
RECURSIVE RStrip(_)
RStrip(s) == IF s # <<>> /\ s[Len(s)] \in Space THEN RStrip(SubSeq(s, 1, Len(s) - 1)) ELSE s
Strip(s) == RStrip(LStrip(s))

\* `sub in s`
StartsAt(s, p, sub) == p + Len(sub) - 1 <= Len(s) /\ SubSeq(s, p, p + Len(sub) - 1) = sub
Contains(s, sub) == \E p \in 1..(Len(s) + 1) : StartsAt(s, p, sub)

\* s.replace(c, "") for every character c of cs; re.sub of a one-character class
RemoveChars(s, cs) == SelectSeq(s, LAMBDA c : c \notin cs)
KeepChars(s, cs) == SelectSeq(s, LAMBDA c : c \in cs)

\* s.replace(sub, rep), leftmost non-overlapping occurrences
RECURSIVE ReplaceStr(_, _, _)
ReplaceStr(s, sub, rep) ==
    IF s = <<>> THEN <<>>
    ELSE IF StartsAt(s, 1, sub) THEN rep \o ReplaceStr(SubSeq(s, Len(sub) + 1, Len(s)), sub, rep)
    ELSE <<Head(s)>> \o ReplaceStr(Tail(s), sub, rep)

\* s.split(sep) for a one-character separator
RECURSIVE SplitOn(_, _)
SplitOn(s, sep) ==
    IF \A k \in 1..Len(s) : s[k] # sep THEN <<s>>
    ELSE LET k == CHOOSE k \in 1..Len(s) : s[k] = sep /\ \A j \in 1..(k - 1) : s[j] # sep
         IN <<SubSeq(s, 1, k - 1)>> \o SplitOn(SubSeq(s, k + 1, Len(s)), sep)

\* s.split(): runs of non-whitespace
RECURSIVE SplitWS(_)
SplitWS(s) ==
    LET t == LStrip(s) IN
    IF t = <<>> THEN <<>>
    ELSE IF \A k \in 1..Len(t) : t[k] \notin Space THEN <<t>>
    ELSE LET k == CHOOSE k \in 1..Len(t) : t[k] \in Space /\ \A j \in 1..(k - 1) : t[j] \notin Space
         IN <<SubSeq(t, 1, k - 1)>> \o SplitWS(SubSeq(t, k + 1, Len(t)))

\* sep.join(parts)
RECURSIVE Join(_, _)
Join(parts, sep) ==
    IF parts = <<>> THEN <<>>
    ELSE IF Len(parts) = 1 THEN parts[1]
    ELSE parts[1] \o sep \o Join(Tail(parts), sep)

(***************************************************************************)
(* Regular expressions (module re)                                         *)
(* A pattern is a sequence of atoms:                                       *)
(*   Cls(c, lo, hi, g)   c{lo,hi}  greedy, in capture group g (0: none)    *)
(*   Lazy(c, lo, hi, g)  c{lo,hi}? lazy                                    *)
(*   Alt(alts, g)        (a|b|...) over literal strings, in order          *)
(*   EndAnchor           $                                                 *)
(* ReFrom returns <<>> on failure, else the start position of every atom   *)
(* from k on followed by the end position of the match, for the first      *)
(* match in backtracking order.                                            *)
(***************************************************************************)
Inf == 99
Cls(c, lo, hi, g) == [t |-> "cls", c |-> c, lo |-> lo, hi |-> hi, lazy |-> FALSE, g |-> g]
Lazy(c, lo, hi, g) == [t |-> "cls", c |-> c, lo |-> lo, hi |-> hi, lazy |-> TRUE, g |-> g]
Alt(alts, g) == [t |-> "alt", alts |-> alts, g |-> g]
Lit(str, g) == Alt(<<str>>, g)
EndAnchor == [t |-> "end", g |-> 0]

RECURSIVE RunLen(_, _, _, _)
RunLen(s, p, c, hi) ==
    IF hi = 0 \/ p > Len(s) \/ s[p] \notin c THEN 0 ELSE 1 + RunLen(s, p + 1, c, hi - 1)

RECURSIVE ReFrom(_, _, _, _)
RECURSIVE ReTry(_, _, _, _, _, _)
RECURSIVE ReAlt(_, _, _, _, _)
ReFrom(re, s, k, p) ==
    IF k > Len(re) THEN <<p>>
    ELSE LET a == re[k] IN
         CASE a.t = "end" ->
                IF p = Len(s) + 1
                THEN LET r == ReFrom(re, s, k + 1, p) IN IF r = <<>> THEN <<>> ELSE <<p>> \o r
                ELSE <<>>
           [] a.t = "alt" -> ReAlt(re, s, k, p, 1)
           [] a.t = "cls" ->
                LET n == RunLen(s, p, a.c, a.hi) IN
                IF n < a.lo THEN <<>>
                ELSE ReTry(re, s, k, p, IF a.lazy THEN a.lo ELSE n, n)
ReTry(re, s, k, p, cnt, n) ==
    LET a == re[k]
        r == ReFrom(re, s, k + 1, p + cnt)
    IN IF r # <<>> THEN <<p>> \o r
       ELSE IF a.lazy THEN (IF cnt < n THEN ReTry(re, s, k, p, cnt + 1, n) ELSE <<>>)
       ELSE (IF cnt > a.lo THEN ReTry(re, s, k, p, cnt - 1, n) ELSE <<>>)
ReAlt(re, s, k, p, j) ==
    LET a == re[k] IN
    IF j > Len(a.alts) THEN <<>>
    ELSE LET r == IF StartsAt(s, p, a.alts[j])
                  THEN ReFrom(re, s, k + 1, p + Len(a.alts[j]))
                  ELSE <<>>
         IN IF r # <<>> THEN <<p>> \o r ELSE ReAlt(re, s, k, p, j + 1)

\* re.match(re, s): anchored at the start
ReMatch(re, s) == ReFrom(re, s, 1, 1)
\* re.search(re, s): the leftmost start position that matches
ReSearch(re, s) ==
    IF \E p \in 1..(Len(s) + 1) : ReFrom(re, s, 1, p) # <<>>
    THEN ReFrom(re, s, 1, CHOOSE p \in 1..(Len(s) + 1) :
                              /\ ReFrom(re, s, 1, p) # <<>>
                              /\ \A q \in 1..(p - 1) : ReFrom(re, s, 1, q) = <<>>)
    ELSE <<>>
\* match.group(g)
Group(re, s, m, g) ==
    LET ks == {k \in 1..Len(re) : re[k].g = g}
        lo == CHOOSE k \in ks : \A j \in ks : k <= j
        hi == CHOOSE k \in ks : \A j \in ks : k >= j
    IN SubSeq(s, m[lo], m[hi + 1] - 1)
\* match.group(0)
Group0(re, s, m) == SubSeq(s, m[1], m[Len(re) + 1] - 1)

(***************************************************************************)
(* Numbers: float(str)                                                     *)
(* The strings reaching float() in the modelled code are built from        *)
(* digits, '.', ',', signs and parentheses, so only the decimal grammar    *)
(* [+-]? (digits [. digits*] | . digits) is modelled; anything else raises *)
(* ValueError (ok = FALSE).                                                *)
(***************************************************************************)
DigitSeq == <<"0","1","2","3","4","5","6","7","8","9">>
DigitVal(c) == (CHOOSE k \in 1..10 : DigitSeq[k] = c) - 1
RECURSIVE DigitsVal(_)
DigitsVal(s) == IF s = <<>> THEN 0 ELSE DigitsVal(SubSeq(s, 1, Len(s) - 1)) * 10 + DigitVal(s[Len(s)])
RECURSIVE Pow10(_)
Pow10(n) == IF n = 0 THEN 1 ELSE 10 * Pow10(n - 1)
PyFloat(str) ==
    LET t == Strip(str)
        neg == t # <<>> /\ Head(t) = "-"
        body == IF t # <<>> /\ Head(t) \in {"-", "+"} THEN Tail(t) ELSE t
        dots == Len(KeepChars(body, {"."}))
        ok == /\ body # <<>>
              /\ \A k \in 1..Len(body) : body[k] \in Digits \cup {"."}
              /\ dots <= 1
              /\ Len(body) > dots
        parts == SplitOn(body, ".")
        fr == IF dots = 1 THEN SubSeq(parts[2], 1, IF Len(parts[2]) < 9 THEN Len(parts[2]) ELSE 9) ELSE <<>>
    IN IF ok
       THEN [ok |-> TRUE, neg |-> neg, ip |-> DigitsVal(parts[1]),
             fp |-> DigitsVal(fr) * Pow10(9 - Len(fr))]
       ELSE [ok |-> FALSE, neg |-> FALSE, ip |-> 0, fp |-> 0]
\* a float as money, in thousandths of a dollar
Mills(f) == (IF f.neg THEN -1 ELSE 1) * (f.ip * 1000 + f.fp \div 1000000)
\* a float's value as a record comparable with =
Val(f) == [neg |-> f.neg /\ (f.ip > 0 \/ f.fp > 0), ip |-> f.ip, fp |-> f.fp]
Positive(v) == ~v.neg /\ (v.ip > 0 \/ v.fp > 0)
Abs(n) == IF n < 0 THEN -n ELSE n

(***************************************************************************)
(* pdf_processor_server.py: parse_amount, parse_capital_one_transactions   *)
(***************************************************************************)
\* parse_amount(amount_str) -> float, in Mills
parse_amount(amount_str) ==
    IF amount_str = <<>> THEN 0
    ELSE LET cleaned == Strip(RemoveChars(amount_str, {"$", ",", " "}))
             signed == IF "(" \in Range(cleaned) /\ ")" \in Range(cleaned)
                       THEN <<"-">> \o RemoveChars(cleaned, {"(", ")"})
                       ELSE cleaned
         IN IF cleaned = <<>> THEN 0
            ELSE IF PyFloat(signed).ok THEN Mills(PyFloat(signed)) ELSE 0

\* text.lower() in [...]: rows that are only a header
header_texts ==
    { <<"t","r","a","n","s","a","c","t","i","o","n","s">>, <<"t","r","a","n","s","a","c","t","i","o","n","s"," ","(","c","o","n","t","i","n","u","e","d",")">>,
      <<"t","r","a","n","s"," ","d","a","t","e"," ","p","o","s","t"," ","d","a","t","e"," ","d","e","s","c","r","i","p","t","i","o","n"," ","a","m","o","u","n","t">> }
\* skip phrases of non-transaction lines
skip_phrases ==
    { <<"v","i","s","i","t"," ","c","a","p","i","t","a","l","o","n","e">>, <<"t","o","t","a","l"," ","f","e","e","s">>, <<"i","n","t","e","r","e","s","t"," ","c","h","a","r","g","e">>,
      <<"a","n","n","u","a","l"," ","p","e","r","c","e","n","t","a","g","e">>, <<"y","o","u","r"," ","a","p","r">>, <<"r","e","w","a","r","d","s"," ","s","u","m","m","a","r","y">>,
      <<"t","r","a","n","s"," ","d","a","t","e"," ","p","o","s","t"," ","d","a","t","e"," ","d","e","s","c","r","i","p","t","i","o","n"," ","a","m","o","u","n","t">>,
      <<"t","o","t","a","l"," ","t","r","a","n","s","a","c","t","i","o","n","s"," ","f","o","r"," ","t","h","i","s"," ","p","e","r","i","o","d">>, <<"h","e","r","n","a","n","d","e","z"," ","#","9","5","8","1",":">>,
      <<"p","a","y","m","e","n","t","s",","," ","c","r","e","d","i","t","s"," ","a","n","d"," ","a","d","j","u","s","t","m","e","n","t","s">> }
is_skip_line(line) == \E ph \in skip_phrases : Contains(LowerS(line), ph)

\* r'^([A-Za-z]{3}\s+\d{1,2})\s+([A-Za-z]{3}\s+\d{1,2})\s+(.+?)\s+([-$]?\$?[\d,]+\.?\d*)$'
transaction_pattern ==
    << Cls(Alpha, 3, 3, 1), Cls(Space, 1, Inf, 1), Cls(Digits, 1, 2, 1),
       Cls(Space, 1, Inf, 0),
       Cls(Alpha, 3, 3, 2), Cls(Space, 1, Inf, 2), Cls(Digits, 1, 2, 2),
       Cls(Space, 1, Inf, 0),
       Lazy(Dot, 1, Inf, 3),
       Cls(Space, 1, Inf, 0),
       Cls({"-", "$"}, 0, 1, 4), Cls({"$"}, 0, 1, 4), Cls(Digits \cup {","}, 1, Inf, 4),
       Cls({"."}, 0, 1, 4), Cls(Digits, 0, Inf, 4),
       EndAnchor >>
\* a variant without the end anchor: r'^\$?([\d,]+\.?\d*)'
original_amount_pattern_unanchored ==
    << Cls({"$"}, 0, 1, 0), Cls(Digits \cup {","}, 1, Inf, 1), Cls({"."}, 0, 1, 1),
       Cls(Digits, 0, Inf, 1) >>
\* r'^\$?([\d,]+\.?\d*)$'
original_amount_pattern ==
    << Cls({"$"}, 0, 1, 0), Cls(Digits \cup {","}, 1, Inf, 1), Cls({"."}, 0, 1, 1),
       Cls(Digits, 0, Inf, 1), EndAnchor >>
\* r'^([A-Z]{3})$'
currency_pattern == << Cls(Upper, 3, 3, 1), EndAnchor >>
\* r'([\d.]+)\s+exchange\s+rate' with re.IGNORECASE: matched on the lower-cased line
exchange_rate_pattern ==
    << Cls(Digits \cup {"."}, 1, Inf, 1), Cls(Space, 1, Inf, 0), Lit(<<"e","x","c","h","a","n","g","e">>, 0),
       Cls(Space, 1, Inf, 0), Lit(<<"r","a","t","e">>, 0) >>

\* the payment test of the sign policy (line 507)
is_payment_description(description) ==
    \/ Contains(UpperS(description), <<"P","A","Y","M","E","N","T">>)
    \/ Contains(UpperS(description), <<"P","Y","M","T">>)
    \/ Contains(UpperS(description), <<"P","M","T">>)
\* lines 505-512: payments positive, everything else negative
signed_amount(description, amount) ==
    IF is_payment_description(description) THEN Abs(amount) ELSE -Abs(amount)

\* re.sub(r'\s+', ' ', description.strip())
RECURSIVE CollapseWS(_)
CollapseWS(s) ==
    IF s = <<>> THEN <<>>
    ELSE IF Head(s) \in Space
         THEN <<" ">> \o CollapseWS(LStrip(s))
         ELSE <<Head(s)>> \o CollapseWS(Tail(s))

\* lines 514-522: the transaction built from a matched line
base_transaction(line, m) ==
    LET description == CollapseWS(Strip(Group(transaction_pattern, line, m, 3)))
        amount == parse_amount(Group(transaction_pattern, line, m, 4))
    IN [ date |-> Group(transaction_pattern, line, m, 2),
         transaction_date |-> Group(transaction_pattern, line, m, 1),
         post_date |-> Group(transaction_pattern, line, m, 2),
         description |-> description,
         amount |-> signed_amount(description, amount),
         bank |-> "capital_one",
         raw_line |-> line ]

\* What the loop body computes from one stripped line: the match objects of
\* lines 489 and 537-539 and the values derived from them.
line_facts(line) ==
    LET m == ReMatch(transaction_pattern, line)
        oa == ReMatch(original_amount_pattern, line)
        cur == ReMatch(currency_pattern, line)
        rate == ReSearch(exchange_rate_pattern, LowerS(line))
    IN [ skip |-> is_skip_line(line),
         match |-> m # <<>>,
         amount |-> IF m # <<>> THEN parse_amount(Group(transaction_pattern, line, m, 4)) ELSE 0,
         transaction |-> IF m # <<>> THEN base_transaction(line, m) ELSE <<>>,
         original_amount_match |-> oa # <<>>,
         \* line 543: float(original_amount_match.group(1).replace(',', ''))
         original_amount |-> IF oa # <<>>
                             THEN PyFloat(RemoveChars(Group(original_amount_pattern, line, oa, 1), {","}))
                             ELSE PyFloat(<<>>),
         currency_match |-> cur # <<>>,
         currency_code |-> IF cur # <<>> THEN Group(currency_pattern, line, cur, 1) ELSE <<>>,
         exchange_rate_match |-> rate # <<>>,
         \* line 545: float(exchange_rate_match.group(1))
         exchange_rate |-> IF rate # <<>>
                           THEN PyFloat(Group(exchange_rate_pattern, LowerS(line), rate, 1))
                           ELSE PyFloat(<<>>) ]

\* the lines a cell is drawn from
LinePurchase == <<"A","p","r"," ","1"," ","A","p","r"," ","2"," ","U","B","E","R"," ","$","2","6",".","0","3">>
LinePayment == <<"A","p","r"," ","1"," ","A","p","r"," ","2"," ","P","M","T"," ","-","$","5",".","0","0">>
LineZero == <<"A","p","r"," ","1"," ","A","p","r"," ","2"," ","X"," ","$","0",".","0","0">>
LineRateAndTxn == <<"A","p","r"," ","1"," ","A","p","r"," ","2"," ","2"," ","E","x","c","h","a","n","g","e"," ","R","a","t","e"," ","$","3",".","0","0">>
LineOrigAmount == <<"$","5","1","8",".","8","2">>
LineComma == <<",">>
LineCurrency == <<"M","X","N">>
LineRate == <<"1","9",".","9","3"," ","E","x","c","h","a","n","g","e"," ","R","a","t","e">>
LineRateZero == <<"0"," ","E","x","c","h","a","n","g","e"," ","R","a","t","e">>
LineFees == <<"T","o","t","a","l"," ","f","e","e","s">>
LineCatalogue ==
    { LinePurchase, LinePayment, LineZero, LineRateAndTxn, LineOrigAmount, LineComma,
      LineCurrency, LineRate, LineRateZero, LineFees, <<>> }
MaxLines == 4
RECURSIVE SeqsUpTo(_, _)
SeqsUpTo(S, n) ==
    IF n = 0 THEN {<<>>}
    ELSE LET shorter == SeqsUpTo(S, n - 1)
         IN shorter \cup {Append(q, x) : q \in {r \in shorter : Len(r) = n - 1}, x \in S}

\* line_facts of every line a cell can hold, evaluated once
LineFacts == [l \in LineCatalogue |-> line_facts(l)]
\* lines[n].strip() in the code's 0-based indexing, and what the loop computes from it
LineAt(n) == Strip(lines[n + 1])
Facts(n) == LineFacts[LineAt(n)]

\* line 531 and lines 537-541: the look-ahead window exists and all three lines match
forex_detected(n) ==
    /\ n + 3 < Len(lines)
    /\ Facts(n + 1).original_amount_match
    /\ Facts(n + 2).currency_match
    /\ Facts(n + 3).exchange_rate_match
\* a variant that skips one line too few: i += 2
forex_skip_short == 3 - 1
\* line 555: i += 3
forex_skip == 3
\* lines 547-552: transaction.update({...})
with_forex(t, n) ==
    [ k \in DOMAIN t \cup {"original_amount", "original_currency", "exchange_rate", "has_forex"} |->
        CASE k = "original_amount" -> Mills(Facts(n + 1).original_amount)
          [] k = "original_currency" -> Facts(n + 2).currency_code
          [] k = "exchange_rate" -> Val(Facts(n + 3).exchange_rate)
          [] k = "has_forex" -> TRUE
          [] OTHER -> t[k] ]

\* --- the row loop (lines 454-462) and the line loop (lines 469-559) ---
\* `if not row or not row[0]: continue`, and the header test of line 461
RowSkipped ==
    /\ pc = "row"
    /\ (text = <<>> \/ LowerS(Strip(text)) \in header_texts)
    /\ pc' = "done"
    /\ UNCHANGED <<text, lines, i, transactions, visited, emitted_at, capOthers>>
\* line 469: lines = text.split('\n'), i = 0
RowSplit ==
    /\ pc = "row"
    /\ ~(text = <<>> \/ LowerS(Strip(text)) \in header_texts)
    /\ lines' = SplitOn(Strip(text), "\n")
    /\ i' = 0
    /\ pc' = "loop"
    /\ UNCHANGED <<text, transactions, visited, emitted_at, capOthers>>
\* `while i < len(lines)` is over
LoopEnd ==
    /\ pc = "loop"
    /\ i >= Len(lines)
    /\ pc' = "done"
    /\ UNCHANGED <<text, lines, i, transactions, visited, emitted_at, capOthers>>
\* lines 472-475: an empty line
BlankLine ==
    /\ pc = "loop" /\ i < Len(lines)
    /\ LineAt(i) = <<>>
    /\ i' = i + 1
    /\ visited' = visited \cup {i}
    /\ UNCHANGED <<text, lines, transactions, pc, emitted_at, capOthers>>
\* lines 478-484: a non-transaction line
SkipLine ==
    /\ pc = "loop" /\ i < Len(lines)
    /\ LineAt(i) # <<>>
    /\ Facts(i).skip
    /\ i' = i + 1
    /\ visited' = visited \cup {i}
    /\ UNCHANGED <<text, lines, transactions, pc, emitted_at, capOthers>>
\* line 491 fails: falls to `i += 1` of line 559
NoMatch ==
    /\ pc = "loop" /\ i < Len(lines)
    /\ LineAt(i) # <<>> /\ ~Facts(i).skip
    /\ ~Facts(i).match
    /\ i' = i + 1
    /\ visited' = visited \cup {i}
    /\ UNCHANGED <<text, lines, transactions, pc, emitted_at, capOthers>>
\* lines 500-503: the amount parsed to 0
ZeroAmount ==
    /\ pc = "loop" /\ i < Len(lines)
    /\ LineAt(i) # <<>> /\ ~Facts(i).skip
    /\ Facts(i).match /\ Facts(i).amount = 0
    /\ i' = i + 1
    /\ visited' = visited \cup {i}
    /\ UNCHANGED <<text, lines, transactions, pc, emitted_at, capOthers>>
\* a transaction line with no forex block attached: lines 557 and 559
EmitPlain ==
    /\ pc = "loop" /\ i < Len(lines)
    /\ LineAt(i) # <<>> /\ ~Facts(i).skip
    /\ Facts(i).match /\ Facts(i).amount # 0
    /\ ~forex_detected(i)
    /\ transactions' = Append(transactions, Facts(i).transaction)
    /\ emitted_at' = Append(emitted_at, i)
    /\ i' = i + 1
    /\ visited' = visited \cup {i}
    /\ UNCHANGED <<text, lines, pc, capOthers>>
\* a transaction line followed by a forex block: lines 541-557 and 559
EmitForex ==
    /\ pc = "loop" /\ i < Len(lines)
    /\ LineAt(i) # <<>> /\ ~Facts(i).skip
    /\ Facts(i).match /\ Facts(i).amount # 0
    /\ forex_detected(i)
    /\ Facts(i + 1).original_amount.ok /\ Facts(i + 3).exchange_rate.ok
    /\ transactions' = Append(transactions, with_forex(Facts(i).transaction, i))
    /\ emitted_at' = Append(emitted_at, i)
    /\ i' = i + forex_skip + 1
    /\ visited' = visited \cup {i}
    /\ UNCHANGED <<text, lines, pc, capOthers>>
\* float() of line 543 or 545 raises ValueError: nothing in the function catches it
ForexRaises ==
    /\ pc = "loop" /\ i < Len(lines)
    /\ LineAt(i) # <<>> /\ ~Facts(i).skip
    /\ Facts(i).match /\ Facts(i).amount # 0
    /\ forex_detected(i)
    /\ ~(Facts(i + 1).original_amount.ok /\ Facts(i + 3).exchange_rate.ok)
    /\ pc' = "raised"
    /\ visited' = visited \cup {i}
    /\ UNCHANGED <<text, lines, i, transactions, emitted_at, capOthers>>

CapInit ==
    /\ text \in {Join(ls, <<"\n">>) : ls \in SeqsUpTo(LineCatalogue, MaxLines)}
                \cup {<<"T","r","a","n","s","a","c","t","i","o","n","s">>}
    /\ lines = <<>>
    /\ i = 0
    /\ transactions = <<>>
    /\ pc = "row"
    /\ visited = {}
    /\ emitted_at = <<>>
    /\ RpIdle /\ DdIdle /\ PdfIdle /\ EpIdle /\ ApiIdle
CapNext ==
    \/ RowSkipped \/ RowSplit \/ LoopEnd \/ BlankLine \/ SkipLine \/ NoMatch
    \/ ZeroAmount \/ EmitPlain \/ EmitForex \/ ForexRaises
SpecCapOne == CapInit /\ [][CapNext]_vars

(***************************************************************************)
(* Properties of parse_capital_one_transactions (SpecCapOne)               *)
(***************************************************************************)
ForexKeys == {"original_amount", "original_currency", "exchange_rate", "has_forex"}

\* The three line shapes, stated on the characters of a line:
\* an optional '$', then digits and commas, then optionally '.' and digits
IsAmountLine(l) ==
    LET b == IF l # <<>> /\ Head(l) = "$" THEN Tail(l) ELSE l IN
    /\ b # <<>>
    /\ b[1] \in Digits \cup {","}
    /\ \A k \in 1..Len(b) : b[k] \in Digits \cup {",", "."}
    /\ \A k \in 1..Len(b) : b[k] = "." => \A j \in (k + 1)..Len(b) : b[j] \in Digits
\* exactly three upper-case letters
IsCurrencyLine(l) == Len(l) = 3 /\ \A k \in 1..3 : l[k] \in Upper
\* a decimal, white space, "exchange", white space, "rate", in any case, anywhere
IsRateLine(l) ==
    \E p \in 2..Len(l), q \in 3..Len(l), r \in 4..Len(l) :
        /\ p < q /\ q + 8 < r
        /\ l[p - 1] \in Digits \cup {"."}
        /\ \A k \in p..(q - 1) : l[k] \in Space
        /\ StartsAt(LowerS(l), q, <<"e", "x", "c", "h", "a", "n", "g", "e">>)
        /\ \A k \in (q + 8)..(r - 1) : l[k] \in Space
        /\ StartsAt(LowerS(l), r, <<"r", "a", "t", "e">>)
LineShapes ==
    [l \in LineCatalogue |->
        [amount |-> IsAmountLine(l), currency |-> IsCurrencyLine(l), rate |-> IsRateLine(l)]]
\* the three lines after line n exist and have the three shapes
FullForexBlockAfter(n) ==
    /\ n + 3 < Len(lines)
    /\ LineShapes[LineAt(n + 1)].amount
    /\ LineShapes[LineAt(n + 2)].currency
    /\ LineShapes[LineAt(n + 3)].rate

\* C1: a transaction carries forex data only if the three lines after its
\* primary line are an amount, a bare three-letter currency code and an
\* exchange-rate line; then it carries all four fields with has_forex true.
\* If any of the three lines fails, it carries none of the four fields.
C1_ForexOnlyOnFullMatch ==
    \A k \in 1..Len(transactions) :
        IF FullForexBlockAfter(emitted_at[k])
        THEN ForexKeys \cap DOMAIN transactions[k] # {} =>
                ForexKeys \subseteq DOMAIN transactions[k] /\ transactions[k].has_forex = TRUE
        ELSE ForexKeys \cap DOMAIN transactions[k] = {}
\* a cell whose transaction got a forex block, and the parse ran to its end
C1_Witness ==
    /\ pc = "done"
    /\ \E k \in 1..Len(transactions) :
        /\ ForexKeys \subseteq DOMAIN transactions[k]
        /\ transactions[k].original_currency = LineCurrency
        /\ transactions[k].original_amount = 518820

\* the transaction appended by this step, if it carries a forex block
AttachedForexInStep ==
    /\ Len(transactions') = Len(transactions) + 1
    /\ "has_forex" \in DOMAIN transactions'[Len(transactions')]
\* C2: the three lines consumed as the forex block of a transaction are never
\* visited by the outer cursor and never emitted as transactions; a step of
\* the loop that attaches no forex block advances the cursor by exactly one.
C2_ForexLinesSkipped ==
    /\ [](\A k \in 1..Len(transactions) :
            "has_forex" \in DOMAIN transactions[k] =>
                \A d \in 1..3 :
                    /\ emitted_at[k] + d \notin visited
                    /\ emitted_at[k] + d \notin Range(emitted_at))
    /\ [][(pc = "loop" /\ pc' = "loop" /\ ~AttachedForexInStep) => i' = i + 1]_vars
\* a forex block whose rate line is also a well-formed transaction line: it is
\* consumed, and the cell yields the one transaction only
C2_Witness ==
    /\ pc = "done"
    /\ Len(transactions) = 1
    /\ "has_forex" \in DOMAIN transactions[1]
    /\ LineAt(emitted_at[1] + 3) = LineRateAndTxn
    /\ LineFacts[LineRateAndTxn].match
    /\ emitted_at[1] + 3 \notin visited

\* C3: every emitted transaction with has_forex = true carries original_amount,
\* original_currency and exchange_rate, and its exchange_rate is greater than 0.
C3_ForexFieldsConsistent ==
    \A k \in 1..Len(transactions) :
        ("has_forex" \in DOMAIN transactions[k] /\ transactions[k].has_forex = TRUE) =>
            /\ {"original_amount", "original_currency", "exchange_rate"} \subseteq DOMAIN transactions[k]
            /\ Positive(transactions[k].exchange_rate)

(***************************************************************************)
(* Dates: datetime.strptime / strftime as the parsers use them             *)
(***************************************************************************)
MonthAbbr ==
    << <<"J","a","n">>, <<"F","e","b">>, <<"M","a","r">>, <<"A","p","r">>, <<"M","a","y">>, <<"J","u","n">>,
       <<"J","u","l">>, <<"A","u","g">>, <<"S","e","p">>, <<"O","c","t">>, <<"N","o","v">>, <<"D","e","c">> >>
MonthNum(name) == CHOOSE k \in 1..12 : LowerS(MonthAbbr[k]) = LowerS(name)
IsLeap(y) == (y % 4 = 0 /\ y % 100 # 0) \/ y % 400 = 0
DaysIn(y, m) ==
    IF m = 2 THEN (IF IsLeap(y) THEN 29 ELSE 28)
    ELSE IF m \in {4, 6, 9, 11} THEN 30 ELSE 31
\* str(n) for n >= 0
RECURSIVE IntStr(_)
IntStr(n) == IF n < 10 THEN <<DigitSeq[n + 1]>> ELSE IntStr(n \div 10) \o <<DigitSeq[(n % 10) + 1]>>
\* '%02d' % n, and str.zfill(2)
Pad2(n) == IF n < 10 THEN <<"0">> \o IntStr(n) ELSE IntStr(n)
ZFill2(s) == IF Len(s) < 2 THEN <<"0">> \o s ELSE s
\* strftime('%Y-%m-%d'): the C library does not pad the year
FormatDate(y, m, d) == IntStr(y) \o <<"-">> \o Pad2(m) \o <<"-">> \o Pad2(d)
AllDigits(s) == s # <<>> /\ \A k \in 1..Len(s) : s[k] \in Digits
\* strptime(s, fmt) for the three-field numeric formats; order is the position
\* of year, month and day among the fields. <<>> stands for ValueError.
Strptime(s, sep, yi, mi, di) ==
    LET parts == SplitOn(s, sep) IN
    IF /\ Len(parts) = 3
       /\ \A k \in 1..3 : AllDigits(parts[k])
       /\ Len(parts[yi]) = 4 /\ Len(parts[mi]) <= 2 /\ Len(parts[di]) <= 2
       /\ DigitsVal(parts[yi]) >= 1
       /\ DigitsVal(parts[mi]) \in 1..12
       /\ DigitsVal(parts[di]) \in 1..DaysIn(DigitsVal(parts[yi]), DigitsVal(parts[mi]))
    THEN FormatDate(DigitsVal(parts[yi]), DigitsVal(parts[mi]), DigitsVal(parts[di]))
    ELSE <<>>
\* the month-name branch of parse_date_string (lines 695-720)
RECURSIVE month_name_date(_, _)
month_name_date(date_str, k) ==
    IF k > 12 THEN <<>>
    ELSE LET day_match == ReSearch(<<Cls(Digits, 1, 2, 1)>>, date_str)
             year_match == ReSearch(<<Cls(Digits, 4, 4, 1)>>, date_str)
         IN IF Contains(LowerS(date_str), LowerS(MonthAbbr[k])) /\ day_match # <<>> /\ year_match # <<>>
            THEN Group0(<<Cls(Digits, 4, 4, 1)>>, date_str, year_match) \o <<"-">> \o Pad2(k) \o <<"-">>
                 \o ZFill2(Group0(<<Cls(Digits, 1, 2, 1)>>, date_str, day_match))
            ELSE month_name_date(date_str, k + 1)
\* CamelotProcessor.parse_date_string: '%m/%d/%Y', '%m-%d-%Y', '%d/%m/%Y',
\* '%Y-%m-%d', then a month name with a day and a four-digit year; <<>> is None
parse_date_string(date_str) ==
    IF Strptime(date_str, "/", 3, 1, 2) # <<>> THEN Strptime(date_str, "/", 3, 1, 2)
    ELSE IF Strptime(date_str, "-", 3, 1, 2) # <<>> THEN Strptime(date_str, "-", 3, 1, 2)
    ELSE IF Strptime(date_str, "/", 3, 2, 1) # <<>> THEN Strptime(date_str, "/", 3, 2, 1)
    ELSE IF Strptime(date_str, "-", 1, 2, 3) # <<>> THEN Strptime(date_str, "-", 1, 2, 3)
    ELSE month_name_date(date_str, 1)

(***************************************************************************)
(* camelot_processor.py: the row parsers of the table path                 *)
(***************************************************************************)
None == [returned |-> "None"]
Float(mills) == [returned |-> "float", value |-> mills]
Transaction(t) == [returned |-> "transaction", transaction |-> t]

\* r'^(Jan|...|Dec)\s+\d{1,2}$'
trans_date_pattern == << Alt(MonthAbbr, 1), Cls(Space, 1, Inf, 0), Cls(Digits, 1, 2, 0), EndAnchor >>
\* re.sub(r'[^\d\.\-]', '', s)
clean_amount(s) == KeepChars(s, Digits \cup {".", "-"})
\* lines 504-506: "PAYMENT" in description.upper() or "PYM" in description.upper()
is_payment_row(description) ==
    \/ Contains(UpperS(description), <<"P","A","Y","M","E","N","T">>)
    \/ Contains(UpperS(description), <<"P","Y","M">>)
\* CamelotProcessor.parse_capital_one_transaction_row, position-based access
\* (lines 463-472); the category field is left out of the record
parse_capital_one_transaction_row(row) ==
    IF Len(row) < 6 THEN None
    ELSE LET trans_date == Strip(row[1])
             description == Strip(row[3])
             amount_str == Strip(row[6])
             nan == <<"n","a","n">>
             amount_clean == clean_amount(RemoveChars(amount_str, {"$", ","}))
             is_payment == is_payment_row(description)
             description_clean ==
                 CollapseWS(Strip(ReplaceStr(ReplaceStr(description, <<"T","S","T","*">>, <<>>), <<"*">>, <<" ">>)))
         IN IF \/ trans_date = <<>> \/ trans_date = nan
               \/ ReMatch(trans_date_pattern, trans_date) = <<>>
               \/ description = <<>> \/ description = nan
               \/ amount_str = <<>> \/ amount_str = nan
               \/ "$" \notin Range(amount_str)
            THEN None
            \* lines 491-499: strptime(f"{trans_date} 2025", "%b %d %Y")
            ELSE IF Len(trans_date) > 6 THEN None
            ELSE IF DigitsVal(KeepChars(trans_date, Digits))
                        \notin 1..DaysIn(2025, MonthNum(SubSeq(trans_date, 1, 3)))
            THEN None
            ELSE IF amount_clean = <<>> THEN None
            ELSE IF ~PyFloat(amount_clean).ok THEN None
            ELSE Transaction(
                    [ date |-> FormatDate(2025, MonthNum(SubSeq(trans_date, 1, 3)),
                                          DigitsVal(KeepChars(trans_date, Digits))),
                      description |-> description_clean,
                      amount |-> IF is_payment THEN Abs(Mills(PyFloat(amount_clean)))
                                 ELSE -Abs(Mills(PyFloat(amount_clean))),
                      type |-> IF is_payment THEN "payment" ELSE "purchase",
                      bank_type |-> "capital_one",
                      extraction_method |-> "camelot_table_fixed" ])

\* transaction_patterns["amount_patterns"] (lines 71-76)
amount_patterns ==
    << << Lit(<<"$">>, 0), Cls(Digits \cup {","}, 1, Inf, 1), Lit(<<".">>, 1), Cls(Digits, 2, 2, 1) >>,
       << Cls(Digits \cup {","}, 1, Inf, 1), Lit(<<".">>, 1), Cls(Digits, 2, 2, 1) >>,
       << Lit(<<"-", "$">>, 0), Cls(Digits \cup {","}, 1, Inf, 1), Lit(<<".">>, 1), Cls(Digits, 2, 2, 1) >>,
       << Lit(<<"(">>, 0), Cls(Digits \cup {","}, 1, Inf, 1), Lit(<<".">>, 1), Cls(Digits, 2, 2, 1),
          Lit(<<")">>, 0) >> >>
\* lines 646-655: the amount of a matched cell, negative when the cell holds '(' or '-'
amount_in_value(value, m, j) ==
    LET amount == Mills(PyFloat(clean_amount(Group(amount_patterns[j], value, m, 1))))
    IN IF "(" \in Range(value) \/ "-" \in Range(value) THEN -Abs(amount) ELSE amount
\* CamelotProcessor.extract_amount_from_row: the first cell and pattern that
\* match and convert (v: cell index, j: pattern index)
RECURSIVE amount_from(_, _, _)
amount_from(row, v, j) ==
    IF v > Len(row) THEN None
    ELSE IF j > Len(amount_patterns) THEN amount_from(row, v + 1, 1)
    ELSE LET m == ReSearch(amount_patterns[j], row[v]) IN
         IF m # <<>> /\ PyFloat(clean_amount(Group(amount_patterns[j], row[v], m, 1))).ok
         THEN Float(amount_in_value(row[v], m, j))
         ELSE amount_from(row, v, j + 1)
extract_amount_from_row(row) == amount_from(row, 1, 1)

\* transaction_patterns["date_patterns"] (lines 65-70)
date_patterns ==
    << << Cls(Digits, 1, 2, 1), Lit(<<"/">>, 1), Cls(Digits, 1, 2, 1), Lit(<<"/">>, 1), Cls(Digits, 4, 4, 1) >>,
       << Cls(Digits, 1, 2, 1), Lit(<<"-">>, 1), Cls(Digits, 1, 2, 1), Lit(<<"-">>, 1), Cls(Digits, 4, 4, 1) >>,
       << Alt(MonthAbbr, 1), Cls(Space, 1, Inf, 0), Cls(Digits, 1, 2, 2) >>,
       << Cls(Digits, 1, 2, 1), Cls(Space, 1, Inf, 0), Alt(MonthAbbr, 2) >> >>
\* CamelotProcessor.extract_date_from_row; <<>> is None
RECURSIVE date_from(_, _, _)
date_from(row, v, j) ==
    IF v > Len(row) THEN <<>>
    ELSE IF j > Len(date_patterns) THEN date_from(row, v + 1, 1)
    ELSE LET m == ReSearch(date_patterns[j], row[v])
             parsed_date == parse_date_string(Group0(date_patterns[j], row[v], m))
         IN IF m # <<>> /\ parsed_date # <<>> THEN parsed_date ELSE date_from(row, v, j + 1)
extract_date_from_row(row) == date_from(row, 1, 1)

\* CamelotProcessor.is_date_or_amount (lines 664-678)
is_date_or_amount(value) ==
    \/ ReSearch(date_patterns[1], value) # <<>>
    \/ ReSearch(date_patterns[2], value) # <<>>
    \/ ReSearch(date_patterns[3], value) # <<>>
    \/ ReSearch(amount_patterns[1], value) # <<>>
    \/ ReSearch(amount_patterns[2], value) # <<>>
    \/ ReSearch(amount_patterns[4], value) # <<>>
\* CamelotProcessor.extract_description_from_row: the first longest cell that
\* is neither a date nor an amount; <<>> is None
extract_description_from_row(row) ==
    LET descriptions == SelectSeq([k \in 1..Len(row) |-> Strip(row[k])],
                                  LAMBDA value : value # <<>> /\ ~is_date_or_amount(value))
    IN IF descriptions = <<>> THEN <<>>
       ELSE descriptions[CHOOSE k \in 1..Len(descriptions) :
                /\ \A j \in 1..Len(descriptions) : Len(descriptions[j]) <= Len(descriptions[k])
                /\ \A j \in 1..(k - 1) : Len(descriptions[j]) < Len(descriptions[k])]
\* CamelotProcessor.parse_transaction_row; the category field is left out
parse_transaction_row(row, bank_type) ==
    IF bank_type = "capital_one" THEN parse_capital_one_transaction_row(row)
    ELSE LET date == extract_date_from_row(row)
             description == extract_description_from_row(row)
             amount == extract_amount_from_row(row)
         IN IF date = <<>> THEN None
            ELSE IF description = <<>> THEN None
            ELSE IF amount = None THEN None
            ELSE Transaction(
                    [ date |-> date,
                      description |-> description,
                      amount |-> amount.value,
                      type |-> IF amount.value < 0 THEN "debit" ELSE "credit",
                      bank_type |-> bank_type,
                      extraction_method |-> "camelot_table" ])

(***************************************************************************)
(* camelot_processor.py: parse_transaction_line of the text fallback       *)
(***************************************************************************)
NotDollar == AnyChar \ {"$"}
\* the month alternatives in the order of the pattern (line 856)
LineMonths ==
    << <<"A","p","r">>, <<"M","a","y">>, <<"J","u","n">>, <<"J","u","l">>, <<"A","u","g">>, <<"S","e","p">>,
       <<"O","c","t">>, <<"N","o","v">>, <<"D","e","c">>, <<"J","a","n">>, <<"F","e","b">>, <<"M","a","r">> >>
\* the three patterns of lines 853-863
line_patterns ==
    << << Alt(LineMonths, 1), Cls(Space, 1, Inf, 0), Cls(Digits, 1, 2, 2), Cls(Space, 1, Inf, 0),
          Lazy(NotDollar, 1, Inf, 3), Cls(Space, 1, Inf, 0), Lit(<<"$">>, 0),
          Cls(Digits \cup {","}, 1, Inf, 4), Lit(<<".">>, 4), Cls(Digits, 2, 2, 4) >>,
       << Cls(Digits, 1, 2, 1), Lit(<<"/">>, 1), Cls(Digits, 1, 2, 1), Lit(<<"/">>, 1), Cls(Digits, 4, 4, 1),
          Cls(Space, 1, Inf, 0),
          Lazy(NotDollar, 1, Inf, 2), Cls(Space, 1, Inf, 0), Lit(<<"$">>, 0),
          Cls(Digits \cup {","}, 1, Inf, 3), Lit(<<".">>, 3), Cls(Digits, 2, 2, 3) >>,
       << Lazy(NotDollar, 1, Inf, 1), Cls(Space, 1, Inf, 0), Lit(<<"$">>, 0),
          Cls(Digits \cup {","}, 1, Inf, 2), Lit(<<".">>, 2), Cls(Digits, 2, 2, 2),
          Cls(Space, 1, Inf, 0),
          Cls(Digits, 1, 2, 3), Lit(<<"/">>, 3), Cls(Digits, 1, 2, 3) >> >>
\* lines 869-880: date, description and amount text of a match of pattern j
line_fields(line, m, j) ==
    IF j = 1
    THEN [ date |-> parse_date_string(Group(line_patterns[1], line, m, 1) \o <<" ">>
                                      \o Group(line_patterns[1], line, m, 2) \o <<" ","2","0","2","4">>),
           description |-> Group(line_patterns[1], line, m, 3),
           amount |-> Group(line_patterns[1], line, m, 4) ]
    ELSE IF "/" \in Range(Group(line_patterns[j], line, m, 1))
    THEN [ date |-> parse_date_string(Group(line_patterns[j], line, m, 1)),
           description |-> Group(line_patterns[j], line, m, 2),
           amount |-> Group(line_patterns[j], line, m, 3) ]
    ELSE [ date |-> parse_date_string(Group(line_patterns[j], line, m, 3) \o <<"/","2","0","2","4">>),
           description |-> Group(line_patterns[j], line, m, 1),
           amount |-> Group(line_patterns[j], line, m, 2) ]
\* lines 885-888: '(' or 'credit' in the line makes the amount positive
line_sign(line, amount_val) ==
    IF "(" \in Range(line) \/ Contains(LowerS(line), <<"c","r","e","d","i","t">>) THEN Abs(amount_val)
    ELSE -Abs(amount_val)
\* CamelotProcessor.parse_transaction_line from pattern j on; the category
\* field is left out
RECURSIVE line_from(_, _)
line_from(line, j) ==
    IF j > Len(line_patterns) THEN None
    ELSE LET m == ReSearch(line_patterns[j], line)
             fields == line_fields(line, m, j)
             amount_val == line_sign(line, Mills(PyFloat(clean_amount(fields.amount))))
         IN IF m = <<>> THEN line_from(line, j + 1)
            ELSE IF fields.date = <<>> THEN line_from(line, j + 1)
            ELSE IF ~PyFloat(clean_amount(fields.amount)).ok THEN line_from(line, j + 1)
            ELSE Transaction(
                    [ date |-> fields.date,
                      description |-> Strip(fields.description),
                      amount |-> amount_val,
                      type |-> IF amount_val < 0 THEN "debit" ELSE "credit",
                      extraction_method |-> "pdfminer_text" ])
parse_transaction_line(line) == line_from(line, 1)

(***************************************************************************)
(* The CSV amount parsers                                                  *)
(***************************************************************************)
\* csv_processor_backup.parse_amount (lines 245-260)
csv_parse_amount(amount_str) ==
    \* line 248: re.sub(r'[^\d\.\-\+,]', '', amount_str)
    LET kept == KeepChars(amount_str, Digits \cup {".", "-", "+", ","})
        signed == IF "(" \in Range(kept) /\ ")" \in Range(kept)
                  THEN <<"-">> \o RemoveChars(kept, {"(", ")"})
                  ELSE kept
        f == PyFloat(RemoveChars(signed, {","}))
    IN IF f.ok THEN Mills(f) ELSE 0
\* EnhancedCSVProcessor.parse_amount_enhanced (csv_processor_enhanced_fixed.py)
parse_amount_enhanced(amount_str) ==
    IF amount_str = <<>> THEN 0
    ELSE LET kept == KeepChars(amount_str, Digits \cup {".", "-", "+", ",", "(", ")"})
             signed == IF "(" \in Range(kept) /\ ")" \in Range(kept)
                       THEN <<"-">> \o RemoveChars(kept, {"(", ")"})
                       ELSE kept
             nocomma == RemoveChars(signed, {","})
             parts == SplitOn(nocomma, ".")
             cleaned == IF Len(parts) > 2
                        THEN Join(SubSeq(parts, 1, Len(parts) - 1), <<>>) \o <<".">> \o parts[Len(parts)]
                        ELSE nocomma
         IN IF PyFloat(cleaned).ok THEN Mills(PyFloat(cleaned)) ELSE 0

(***************************************************************************)
(* SpecRows: each parser applied to one input                              *)
(***************************************************************************)
\* the cells a Capital One table row is built from
RowDates == { <<"A","p","r"," ","1","6">>, <<"F","e","b"," ","3","0">> }
RowDescriptions == { <<"U","B","E","R">>, <<"A","U","T","O","P","A","Y"," ","P","M","T">>, <<"O","N","L","I","N","E"," ","P","Y","M","T">>, <<"*">> }
RowAmounts == { <<"$","2","6",".","0","3">>, <<"-","$","2","6",".","0","3">>, <<"(","$","2","6",".","0","3",")">>, <<"$","0",".","0","0">>, <<"$">>, <<"2","6",".","0","3">> }
CapitalOneRows ==
    { <<d, <<"A","p","r"," ","1","7">>, desc, <<>>, <<>>, a>> : d \in RowDates, desc \in RowDescriptions, a \in RowAmounts }
    \cup { << <<"A","p","r"," ","1","6">>, <<"A","p","r"," ","1","7">>, <<"U","B","E","R">>, <<>>, <<"$","2","6",".","0","3">> >> }
\* the cells of a three-column table row
GenericRows ==
    { <<d, desc, a>> : d \in { <<"0","1","/","1","5","/","2","0","2","4">>, <<"A","p","r"," ","1","6">> },
                       desc \in { <<"S","T","O","R","E"," ","1","2">>, <<>> },
                       a \in { <<"$","5","0",".","0","0">>, <<"(","$","5","0",".","0","0",")">>, <<"-","5","0",".","0","0">>, <<"0",".","0","0">>, <<"5","0">> } }
\* lines of the raw text of a statement
TextLines ==
    { <<"A","p","r"," ","2","6"," ","S","T","O","R","E"," ","$","5","0",".","0","0">>, <<"A","p","r"," ","2","6"," ","R","E","F","U","N","D"," ","("," ","$","5","0",".","0","0",")">>, <<"A","p","r"," ","2","6"," ","S","T","O","R","E"," ","-","$","5","0",".","0","0">>,
      <<"A","p","r"," ","2","6"," ","c","r","e","d","i","t"," ","$","5",".","0","0">>, <<"A","p","r"," ","2","6"," ","X"," ","$","0",".","0","0">>, <<"0","1","/","1","5","/","2","0","2","4"," ","S","T","O","R","E"," ","$","5",".","0","0">>,
      <<"1","3","/","1","5","/","2","0","2","4"," ","S","T","O","R","E"," ","$","5",".","0","0">>, <<"S","T","O","R","E"," ","$","5",".","0","0"," ","0","1","/","1","5">>, <<"1","/","2","/","2","0","2","4"," ","$","5",".","0","0"," ","3","/","4">>,
      <<"T","o","t","a","l"," ","f","e","e","s">> }
\* amount fields of a CSV row
AmountStrings ==
    { <<"5","0",".","0","0">>, <<"(","5","0",".","0","0",")">>, <<"-","5","0",".","0","0">>, <<"$","1",",","2","3","4",".","5","6">>, <<"(","$","1",",","2","3","4",".","5","6",")">>, <<"+","5">>,
      <<"a","b","c">>, <<>>, <<"1",".","2",".","3">>, <<"0",".","0","0">> }
RpInputs ==
    { [kind |-> "row", cells |-> r, bank_type |-> b] :
        r \in CapitalOneRows \cup GenericRows, b \in {"capital_one", "generic"} }
    \cup { [kind |-> "line", text |-> l] : l \in TextLines }
    \cup { [kind |-> "amount", text |-> a] : a \in AmountStrings }

\* extract_transactions_from_tables, line 384: one row through parse_transaction_row
ParseTransactionRow ==
    /\ rp_parser = "none" /\ rp_input.kind = "row"
    /\ rp_parser' = "parse_transaction_row"
    /\ rp_result' = parse_transaction_row(rp_input.cells, rp_input.bank_type)
    /\ UNCHANGED <<rp_input, rpOthers>>
\* extract_amount_from_row on the row
ExtractAmountFromRow ==
    /\ rp_parser = "none" /\ rp_input.kind = "row"
    /\ rp_parser' = "extract_amount_from_row"
    /\ rp_result' = extract_amount_from_row(rp_input.cells)
    /\ UNCHANGED <<rp_input, rpOthers>>
\* extract_transactions_from_text, line 841: one line through parse_transaction_line
ParseTransactionLine ==
    /\ rp_parser = "none" /\ rp_input.kind = "line"
    /\ rp_parser' = "parse_transaction_line"
    /\ rp_result' = parse_transaction_line(rp_input.text)
    /\ UNCHANGED <<rp_input, rpOthers>>
\* csv_processor_backup.parse_amount on an amount field
CsvParseAmount ==
    /\ rp_parser = "none" /\ rp_input.kind = "amount"
    /\ rp_parser' = "csv_parse_amount"
    /\ rp_result' = Float(csv_parse_amount(rp_input.text))
    /\ UNCHANGED <<rp_input, rpOthers>>
\* EnhancedCSVProcessor.parse_amount_enhanced on an amount field
ParseAmountEnhanced ==
    /\ rp_parser = "none" /\ rp_input.kind = "amount"
    /\ rp_parser' = "parse_amount_enhanced"
    /\ rp_result' = Float(parse_amount_enhanced(rp_input.text))
    /\ UNCHANGED <<rp_input, rpOthers>>
\* pdf_processor_server.parse_amount on an amount field
PdfParseAmount ==
    /\ rp_parser = "none" /\ rp_input.kind = "amount"
    /\ rp_parser' = "parse_amount"
    /\ rp_result' = Float(parse_amount(rp_input.text))
    /\ UNCHANGED <<rp_input, rpOthers>>

RowsInit ==
    /\ rp_input \in RpInputs
    /\ rp_parser = "none"
    /\ rp_result = [returned |-> "pending"]
    /\ CapIdle /\ DdIdle /\ PdfIdle /\ EpIdle /\ ApiIdle
RowsNext ==
    \/ ParseTransactionRow \/ ExtractAmountFromRow \/ ParseTransactionLine
    \/ CsvParseAmount \/ ParseAmountEnhanced \/ PdfParseAmount
SpecRows == RowsInit /\ [][RowsNext]_vars

(***************************************************************************)
(* Properties of the parsers (SpecRows)                                    *)
(***************************************************************************)
\* C4: every transaction a parser hands to the returned list has a non-empty
\* description and a non-zero amount.
C4_NonEmptyDescriptionNonZeroAmount ==
    rp_result.returned = "transaction" =>
        /\ rp_result.transaction.description # <<>>
        /\ rp_result.transaction.amount # 0

\* PAYMENT, PYMT or PMT in the description, in any case
HasPaymentMarker(description) ==
    \E marker \in { <<"P","A","Y","M","E","N","T">>, <<"P","Y","M","T">>, <<"P","M","T">> } : Contains(UpperS(description), marker)
\* C5: in the Capital One table-row parser the sign of a (non-zero) amount
\* depends only on the description: positive with a payment marker (PAYMENT,
\* PYMT, PMT), negative without, whatever sign the amount cell carried.
C5_SignFollowsPaymentMarker ==
    (/\ rp_parser = "parse_transaction_row"
     /\ rp_input.bank_type = "capital_one"
     /\ rp_result.returned = "transaction"
     /\ rp_result.transaction.amount # 0) =>
        IF HasPaymentMarker(rp_input.cells[3])
        THEN rp_result.transaction.amount > 0
        ELSE rp_result.transaction.amount < 0

\* an amount written in parentheses or with a leading '-', and not zero
WrittenNegative(s) ==
    /\ s # <<>>
    /\ Head(s) = "-" \/ (Head(s) = "(" /\ s[Len(s)] = ")")
    /\ \E k \in 1..Len(s) : s[k] \in Digits \ {"0"}
\* C6: an amount written in parentheses or with a leading '-' is negative in
\* every path: the table path (extract_amount_from_row), the text path
\* (parse_transaction_line) and the CSV amount parsers (parse_amount,
\* parse_amount_enhanced); no path makes a parenthesized amount positive.
C6_WrittenNegativeIsNegative ==
    /\ (rp_parser \in {"csv_parse_amount", "parse_amount_enhanced"} /\ WrittenNegative(rp_input.text))
            => rp_result.value < 0
    /\ (/\ rp_parser = "extract_amount_from_row"
        /\ rp_result.returned = "float"
        /\ WrittenNegative(rp_input.cells[Len(rp_input.cells)]))
            => rp_result.value < 0
    /\ (/\ rp_parser = "parse_transaction_line"
        /\ rp_result.returned = "transaction"
        /\ Contains(rp_input.text, <<"("," ","$">>))
            => rp_result.transaction.amount < 0

(***************************************************************************)
(* camelot_processor.py: deduplicate_transactions                          *)
(***************************************************************************)
\* the common transaction words of lines 1096-1109
common_words ==
    { <<"p","u","r","c","h","a","s","e">>, <<"p","a","y","m","e","n","t">>, <<"d","e","b","i","t">>, <<"c","r","e","d","i","t">>, <<"c","a","r","d">>, <<"t","r","a","n","s","a","c","t","i","o","n">>,
      <<"p","o","s">>, <<"o","n","l","i","n","e">>, <<"r","e","c","u","r","r","i","n","g">>, <<"a","u","t","o","m","a","t","i","c">>, <<"a","u","t","h">>, <<"p","e","n","d","i","n","g">> }
\* re.sub(r'\d{1,2}/\d{1,2}(/\d{2,4})?$', '', description), line 1114
trailing_date_long ==
    << Cls(Digits, 1, 2, 0), Lit(<<"/">>, 0), Cls(Digits, 1, 2, 0), Lit(<<"/">>, 0),
       Cls(Digits, 2, 4, 0), EndAnchor >>
trailing_date_short == << Cls(Digits, 1, 2, 0), Lit(<<"/">>, 0), Cls(Digits, 1, 2, 0), EndAnchor >>
strip_trailing_date(s) ==
    LET starts == {p \in 1..Len(s) : \/ ReFrom(trailing_date_long, s, 1, p) # <<>>
                                     \/ ReFrom(trailing_date_short, s, 1, p) # <<>>}
    IN IF starts = {} THEN s
       ELSE SubSeq(s, 1, (CHOOSE p \in starts : \A q \in starts : p <= q) - 1)
\* re.sub(r'\d{4,}$', '', cleaned), line 1115
strip_trailing_id(s) ==
    LET m == ReSearch(<<Cls(Digits, 4, Inf, 0), EndAnchor>>, s)
    IN IF m = <<>> THEN s ELSE SubSeq(s, 1, m[1] - 1)
\* lines 1121-1128: the words that count
significant_words(words) ==
    SelectSeq([k \in 1..Len(words) |-> KeepChars(LowerS(words[k]), WordChars)],
              LAMBDA word_clean : /\ Len(word_clean) >= 3
                                  /\ word_clean \notin common_words
                                  /\ ~AllDigits(word_clean))
\* CamelotProcessor._clean_description_for_matching
clean_description_for_matching(description) ==
    LET filtered_words == significant_words(SplitWS(strip_trailing_id(strip_trailing_date(description))))
    IN Join(SubSeq(filtered_words, 1, IF Len(filtered_words) < 3 THEN Len(filtered_words) ELSE 3),
            <<" ">>)

\* match_tolerance = 0.01 dollars (line 983), in Mills
match_tolerance == 10
\* lines 1070-1086: the cleaned descriptions are equal or share enough words
cleaned_match(desc1_clean, desc2_clean) ==
    /\ desc1_clean # <<>> /\ desc2_clean # <<>> /\ Len(desc1_clean) >= 5
    /\ \/ desc1_clean = desc2_clean
       \/ LET desc1_words == Range(SplitWS(desc1_clean))
              desc2_words == Range(SplitWS(desc2_clean))
              common == Cardinality(desc1_words \cap desc2_words)
              smaller == IF Cardinality(desc1_words) < Cardinality(desc2_words)
                         THEN Cardinality(desc1_words) ELSE Cardinality(desc2_words)
          IN common >= 2 /\ common * 10 >= smaller * 6
\* a variant of the description test without the test of the cleaned descriptions
descriptions_match_uncleaned(d1, d2) ==
    LET desc1 == Strip(LowerS(d1))
        desc2 == Strip(LowerS(d2))
        shorter == IF Len(desc1) < Len(desc2) THEN desc1 ELSE desc2
        longer == IF Len(desc1) < Len(desc2) THEN desc2 ELSE desc1
    IN \/ desc1 = desc2
       \/ /\ Len(desc1) > 0 /\ Len(desc2) > 0
          /\ Len(shorter) >= 10 /\ Contains(longer, shorter)
\* lines 1050-1088: the description similarity check
descriptions_match(d1, d2) ==
    LET desc1 == Strip(LowerS(d1))
        desc2 == Strip(LowerS(d2))
        shorter == IF Len(desc1) < Len(desc2) THEN desc1 ELSE desc2
        longer == IF Len(desc1) < Len(desc2) THEN desc2 ELSE desc1
    IN \/ desc1 = desc2
       \/ /\ Len(desc1) > 0 /\ Len(desc2) > 0
          /\ \/ Len(shorter) >= 10 /\ Contains(longer, shorter)
             \/ cleaned_match(clean_description_for_matching(desc1),
                              clean_description_for_matching(desc2))
\* CamelotProcessor._transactions_match
transactions_match(t1, t2, tolerance) ==
    /\ t1.date = t2.date
    /\ Abs(t1.amount - t2.amount) <= tolerance
    /\ descriptions_match(t1.description, t2.description)

\* the transactions a list is drawn from. The amounts differ by 0, 5, 6 or 12
\* Mills, never by the tolerance itself, so that the comparison of line 1046
\* does not depend on floating-point rounding.
TxnWalmartId == [date |-> "2024-01-01", amount |-> -50000, description |-> <<"W","A","L","M","A","R","T"," ","#","1","2","3">>]
TxnWalmartSuper == [date |-> "2024-01-01", amount |-> -50005, description |-> <<"W","a","l","m","a","r","t"," ","S","u","p","e","r","c","e","n","t","e","r">>]
TxnWalmartPos == [date |-> "2024-01-01", amount |-> -50000, description |-> <<"w","a","l","m","a","r","t"," ","p","o","s">>]
TxnWalmartNextDay == [date |-> "2024-01-02", amount |-> -50000, description |-> <<"W","A","L","M","A","R","T"," ","#","1","2","3">>]
TxnUber0 == [date |-> "2024-01-01", amount |-> -20000, description |-> <<"U","B","E","R"," ","T","R","I","P">>]
TxnUber6 == [date |-> "2024-01-01", amount |-> -20006, description |-> <<"U","B","E","R"," ","T","R","I","P">>]
TxnUber12 == [date |-> "2024-01-01", amount |-> -20012, description |-> <<"U","B","E","R"," ","T","R","I","P">>]
TxnAmazon == [date |-> "2024-01-01", amount |-> -9990, description |-> <<"A","M","A","Z","O","N"," ","M","K","T","P"," ","U","S">>]
TxnAmazonLong == [date |-> "2024-01-01", amount |-> -9990, description |-> <<"A","m","a","z","o","n"," ","M","k","t","p"," ","U","S"," ","1","2","/","0","1">>]
TxnCoffee == [date |-> "2024-01-01", amount |-> -4500, description |-> <<"S","t","a","r","b","u","c","k","s"," ","C","o","f","f","e","e"," ","S","e","a","t","t","l","e">>]
TxnCoffeeSwapped == [date |-> "2024-01-01", amount |-> -4500, description |-> <<"C","o","f","f","e","e"," ","S","t","a","r","b","u","c","k","s"," ","D","o","w","n","t","o","w","n"," ","P","O","S">>]
TxnCatalogue ==
    { TxnWalmartId, TxnWalmartSuper, TxnWalmartPos, TxnWalmartNextDay, TxnUber0, TxnUber6,
      TxnUber12, TxnAmazon, TxnAmazonLong, TxnCoffee, TxnCoffeeSwapped }
MaxTxns == 3

\* _transactions_match of every pair of the catalogue, evaluated once
MatchTable ==
    [t1 \in TxnCatalogue |-> [t2 \in TxnCatalogue |-> transactions_match(t1, t2, match_tolerance)]]
\* a variant of the scan that compares the candidate with the latest kept transaction only
is_duplicate_of_latest(transaction, unique_transactions) ==
    /\ unique_transactions # <<>>
    /\ MatchTable[transaction][unique_transactions[Len(unique_transactions)]]
\* lines 1008-1016: the candidate matches some transaction already kept
is_duplicate(transaction, unique_transactions) ==
    \E k \in 1..Len(unique_transactions) : MatchTable[transaction][unique_transactions[k]]
\* lines 1004-1019 as a fold over the input
RECURSIVE dedup_from(_, _, _)
dedup_from(list, k, unique_transactions) ==
    IF k > Len(list) THEN unique_transactions
    ELSE dedup_from(list, k + 1,
                    IF is_duplicate(list[k], unique_transactions) THEN unique_transactions
                    ELSE Append(unique_transactions, list[k]))
\* CamelotProcessor.deduplicate_transactions
deduplicate_transactions(list, enable_dedup) ==
    IF ~enable_dedup \/ list = <<>> THEN list ELSE dedup_from(list, 1, <<>>)

\* line 996: `if not enable_dedup or not transactions: return transactions`
DedupReturnInput ==
    /\ dd_pc = "call"
    /\ ~dd_enable \/ dd_input = <<>>
    /\ dd_unique' = dd_input
    /\ dd_pc' = "done"
    /\ UNCHANGED <<dd_input, dd_enable, dd_k, ddOthers>>
\* line 1001: unique_transactions = []
DedupStart ==
    /\ dd_pc = "call"
    /\ dd_enable /\ dd_input # <<>>
    /\ dd_unique' = <<>>
    /\ dd_k' = 0
    /\ dd_pc' = "loop"
    /\ UNCHANGED <<dd_input, dd_enable, ddOthers>>
\* lines 1004-1016: the candidate is a duplicate and is dropped
DedupDrop ==
    /\ dd_pc = "loop" /\ dd_k < Len(dd_input)
    /\ is_duplicate(dd_input[dd_k + 1], dd_unique)
    /\ dd_k' = dd_k + 1
    /\ UNCHANGED <<dd_input, dd_enable, dd_unique, dd_pc, ddOthers>>
\* lines 1018-1019: the candidate is kept
DedupAccept ==
    /\ dd_pc = "loop" /\ dd_k < Len(dd_input)
    /\ ~is_duplicate(dd_input[dd_k + 1], dd_unique)
    /\ dd_unique' = Append(dd_unique, dd_input[dd_k + 1])
    /\ dd_k' = dd_k + 1
    /\ UNCHANGED <<dd_input, dd_enable, dd_pc, ddOthers>>
\* line 1027: return unique_transactions
DedupReturn ==
    /\ dd_pc = "loop" /\ dd_k = Len(dd_input)
    /\ dd_pc' = "done"
    /\ UNCHANGED <<dd_input, dd_enable, dd_unique, dd_k, ddOthers>>

DedupInit ==
    /\ dd_input \in SeqsUpTo(TxnCatalogue, MaxTxns)
    /\ dd_enable \in BOOLEAN
    /\ dd_unique = <<>>
    /\ dd_k = 0
    /\ dd_pc = "call"
    /\ CapIdle /\ RpIdle /\ PdfIdle /\ EpIdle /\ ApiIdle
DedupNext == DedupReturnInput \/ DedupStart \/ DedupDrop \/ DedupAccept \/ DedupReturn
SpecDedup == DedupInit /\ [][DedupNext]_vars

(***************************************************************************)
(* Properties of deduplicate_transactions (SpecDedup)                      *)
(***************************************************************************)
\* the reorderings of a list
PermutationsOf(list) ==
    { [k \in 1..Len(list) |-> list[f[k]]] : f \in Permutations(1..Len(list)) }
\* C7: the number of survivors of deduplicate_transactions is the same for
\* every permutation of the input list, at a fixed tolerance.
C7_CountInvariantUnderPermutation ==
    (dd_pc = "done" /\ dd_enable) =>
        \A p \in PermutationsOf(dd_input) :
            Len(deduplicate_transactions(p, TRUE)) = Len(dd_unique)

\* the token sets of two cleaned descriptions share at least two tokens and at
\* least 60% of the smaller set
TokensOverlap(c1, c2) ==
    LET w1 == Range(SplitWS(c1))
        w2 == Range(SplitWS(c2))
        n == Cardinality(w1 \cap w2)
    IN n >= 2 /\ \E w \in {w1, w2} :
                    /\ \A v \in {w1, w2} : Cardinality(w) <= Cardinality(v)
                    /\ 10 * n >= 6 * Cardinality(w)
\* similar, as the claim has it: equal; else the shorter (at least 10 long) is
\* inside the longer; else the cleaned token sets overlap. Read on the
\* lower-cased, stripped descriptions.
SimilarAsClaimed(d1, d2) ==
    LET a == Strip(LowerS(d1))
        b == Strip(LowerS(d2))
    IN \/ a = b
       \/ \E s \in {a, b} : \E l \in {a, b} \ {s} :
            Len(s) <= Len(l) /\ Len(s) >= 10 /\ Contains(l, s)
       \/ TokensOverlap(clean_description_for_matching(a), clean_description_for_matching(b))
\* similar, as the code has it: in the third test the cleaned descriptions
\* (both non-empty, the candidate's at least 5 long) are equal or overlap
SimilarAmended(d1, d2) ==
    LET a == Strip(LowerS(d1))
        b == Strip(LowerS(d2))
        ca == clean_description_for_matching(a)
        cb == clean_description_for_matching(b)
    IN \/ a = b
       \/ \E s \in {a, b} : \E l \in {a, b} \ {s} :
            Len(s) <= Len(l) /\ Len(s) >= 10 /\ Contains(l, s)
       \/ /\ a # <<>> /\ b # <<>> /\ ca # <<>> /\ cb # <<>> /\ Len(ca) >= 5
          /\ ca = cb \/ TokensOverlap(ca, cb)
CatalogueDescriptions == {t.description : t \in TxnCatalogue}
SimilarAsClaimedTable ==
    [d1 \in CatalogueDescriptions |-> [d2 \in CatalogueDescriptions |-> SimilarAsClaimed(d1, d2)]]
SimilarAmendedTable ==
    [d1 \in CatalogueDescriptions |-> [d2 \in CatalogueDescriptions |-> SimilarAmended(d1, d2)]]
\* the step of the scan that takes the next candidate
ScanStep == dd_pc = "loop" /\ dd_k' = dd_k + 1
Dropped == dd_unique' = dd_unique
Accepted == dd_unique' = Append(dd_unique, dd_input[dd_k + 1])
\* some accepted transaction has the candidate's date, an amount within the
\* tolerance of the candidate's and a description similar to the candidate's
SomeAcceptedMatches(similar) ==
    \E k \in 1..Len(dd_unique) :
        /\ dd_unique[k].date = dd_input[dd_k + 1].date
        /\ Abs(dd_unique[k].amount - dd_input[dd_k + 1].amount) <= match_tolerance
        /\ similar[dd_input[dd_k + 1].description][dd_unique[k].description]

\* C8 (amended): the scan takes the candidates in input order and drops a
\* candidate exactly when some accepted transaction has the same date, an
\* amount within the tolerance and a similar description, where similar is:
\* equal lower-cased descriptions; else the shorter (at least 10 characters)
\* inside the longer; else the cleaned descriptions are both non-empty, the
\* candidate's is at least 5 characters long, and they are equal or share at
\* least 2 tokens and 60% of the smaller token set. Otherwise it is accepted.
C8_DropExactlyOnMatch ==
    [][ScanStep => IF SomeAcceptedMatches(SimilarAmendedTable) THEN Dropped ELSE Accepted]_vars
\* C8 as stated: the third test is the overlap of the token sets alone
C8_DropExactlyOnMatchAsStated ==
    [][ScanStep => IF SomeAcceptedMatches(SimilarAsClaimedTable) THEN Dropped ELSE Accepted]_vars
\* a candidate was dropped for a cleaned description equal to an accepted one
\* although the two share one token only
C8_Witness ==
    /\ dd_pc = "done"
    /\ dd_input = <<TxnWalmartId, TxnWalmartPos>>
    /\ dd_unique = <<TxnWalmartId>>

\* C9: the rows 'WALMART #123' at -50.00 and 'Walmart Supercenter' at -50.005
\* of 2024-01-01 collapse to one survivor at tolerance 0.01.
C9_WalmartPairCollapses ==
    (dd_pc = "done" /\ dd_enable /\ dd_input = <<TxnWalmartId, TxnWalmartSuper>>) =>
        Len(dd_unique) = 1

\* `sub` is `list` with some elements left out, the others in their order
IsSubsequence(sub, list) ==
    \E f \in [1..Len(sub) -> 1..Len(list)] :
        /\ \A k \in 1..Len(sub) : list[f[k]] = sub[k]
        /\ \A k \in 1..Len(sub) : \A l \in 1..Len(sub) : k < l => f[k] < f[l]
\* C27: in the output of deduplicate_transactions no two distinct survivors
\* are duplicates of each other (_transactions_match is false for every pair
\* of survivors in both argument orders), and the output is an
\* order-preserving subsequence of the input whose first element is the
\* first input element.
C27_SurvivorsPairwiseUnmatched ==
    (dd_pc = "done" /\ dd_enable) =>
        /\ \A a \in 1..Len(dd_unique) : \A b \in 1..Len(dd_unique) :
                a # b => /\ ~transactions_match(dd_unique[a], dd_unique[b], match_tolerance)
                         /\ ~transactions_match(dd_unique[b], dd_unique[a], match_tolerance)
        /\ IsSubsequence(dd_unique, dd_input)
        /\ dd_input # <<>> => (dd_unique # <<>> /\ dd_unique[1] = dd_input[1])
\* a scan that kept the first and the third of three transactions and dropped
\* the second as a duplicate of the first
C27_Witness ==
    /\ dd_pc = "done" /\ dd_enable
    /\ dd_input = <<TxnWalmartId, TxnWalmartPos, TxnUber0>>
    /\ dd_unique = <<TxnWalmartId, TxnUber0>>

(***************************************************************************)
(* camelot_processor.py: process_pdf and extract_tables_with_camelot       *)
(* A PDF is what the libraries report of it: whether camelot.read_pdf      *)
(* raises, the tables it detects (accuracy; what cleaning and saving the   *)
(* table does; the number of rows that parse into transactions), whether   *)
(* pdfminer raises, and the number of text lines that parse into           *)
(* transactions. Deduplication is off, as the constructor leaves it.       *)
(***************************************************************************)
AccuracyValues == {40, 50, 51, 90}
\* "kept": the cleaned table is not empty and is saved; "empty": it is empty
\* after cleaning; "raises": cleaning or saving it raises
TableOutcomes == {"kept", "empty", "raises"}
DetectedTables == [accuracy : AccuracyValues, outcome : TableOutcomes, rows : 0..1]
MaxTables == 2
PdfDocs ==
    [ read_raises : BOOLEAN, detected : SeqsUpTo(DetectedTables, MaxTables),
      text_raises : BOOLEAN, text_lines : 0..1 ]

\* a variant of the accuracy test that accepts the threshold itself
accuracy_at_or_above_threshold(accuracy) == accuracy >= 50
\* line 171: table.parsing_report["accuracy"] > 50
accuracy_above_threshold(accuracy) == accuracy > 50
\* extract_transactions_from_tables: the transactions of the rows of the tables
RECURSIVE extract_transactions_from_tables(_)
extract_transactions_from_tables(tables) ==
    IF tables = <<>> THEN <<>>
    ELSE [k \in 1..Head(tables).rows |-> [extraction_method |-> "camelot_table"]]
         \o extract_transactions_from_tables(Tail(tables))
\* fallback_to_pdfminer: the transactions of the text lines, [] when it raises
fallback_to_pdfminer(doc) ==
    IF doc.text_raises THEN <<>>
    ELSE [k \in 1..doc.text_lines |-> [extraction_method |-> "pdfminer_text"]]

\* line 162 raises: the except clause of line 188 returns []
PdfReadRaises ==
    /\ pdf_pc = "tables" /\ pdf_doc.read_raises
    /\ pdf_tables' = <<>>
    /\ pdf_pc' = "branch"
    /\ UNCHANGED <<pdf_doc, pdf_k, pdf_out, pdfOthers>>
\* lines 171-182: a table above the threshold, not empty after cleaning, is kept
PdfTableKept ==
    /\ pdf_pc = "tables" /\ ~pdf_doc.read_raises /\ pdf_k < Len(pdf_doc.detected)
    /\ accuracy_above_threshold(pdf_doc.detected[pdf_k + 1].accuracy)
    /\ pdf_doc.detected[pdf_k + 1].outcome = "kept"
    /\ pdf_tables' = Append(pdf_tables, pdf_doc.detected[pdf_k + 1])
    /\ pdf_k' = pdf_k + 1
    /\ UNCHANGED <<pdf_doc, pdf_out, pdf_pc, pdfOthers>>
\* line 174: a table above the threshold that is empty after cleaning is left out
PdfTableEmpty ==
    /\ pdf_pc = "tables" /\ ~pdf_doc.read_raises /\ pdf_k < Len(pdf_doc.detected)
    /\ accuracy_above_threshold(pdf_doc.detected[pdf_k + 1].accuracy)
    /\ pdf_doc.detected[pdf_k + 1].outcome = "empty"
    /\ pdf_k' = pdf_k + 1
    /\ UNCHANGED <<pdf_doc, pdf_tables, pdf_out, pdf_pc, pdfOthers>>
\* lines 173-181 raise: the except clause of line 188 returns []
PdfTableRaises ==
    /\ pdf_pc = "tables" /\ ~pdf_doc.read_raises /\ pdf_k < Len(pdf_doc.detected)
    /\ accuracy_above_threshold(pdf_doc.detected[pdf_k + 1].accuracy)
    /\ pdf_doc.detected[pdf_k + 1].outcome = "raises"
    /\ pdf_tables' = <<>>
    /\ pdf_pc' = "branch"
    /\ UNCHANGED <<pdf_doc, pdf_k, pdf_out, pdfOthers>>
\* lines 183-186: a table at or below the threshold is skipped
PdfTableSkipped ==
    /\ pdf_pc = "tables" /\ ~pdf_doc.read_raises /\ pdf_k < Len(pdf_doc.detected)
    /\ ~accuracy_above_threshold(pdf_doc.detected[pdf_k + 1].accuracy)
    /\ pdf_k' = pdf_k + 1
    /\ UNCHANGED <<pdf_doc, pdf_tables, pdf_out, pdf_pc, pdfOthers>>
\* line 187: return dataframes
PdfTablesReturned ==
    /\ pdf_pc = "tables" /\ ~pdf_doc.read_raises /\ pdf_k = Len(pdf_doc.detected)
    /\ pdf_pc' = "branch"
    /\ UNCHANGED <<pdf_doc, pdf_k, pdf_tables, pdf_out, pdfOthers>>
\* lines 925-932: `if tables:` the transactions come from the tables
PdfUseTables ==
    /\ pdf_pc = "branch" /\ pdf_tables # <<>>
    /\ pdf_out' = [ transactions |-> extract_transactions_from_tables(pdf_tables),
                    extraction_method |-> "camelot_tables",
                    total_tables_found |-> Len(pdf_tables) ]
    /\ pdf_pc' = "done"
    /\ UNCHANGED <<pdf_doc, pdf_k, pdf_tables, pdfOthers>>
\* lines 933-937: no table, the transactions come from the text
PdfFallback ==
    /\ pdf_pc = "branch" /\ pdf_tables = <<>>
    /\ pdf_out' = [ transactions |-> fallback_to_pdfminer(pdf_doc),
                    extraction_method |-> "pdfminer_text",
                    total_tables_found |-> 0 ]
    /\ pdf_pc' = "done"
    /\ UNCHANGED <<pdf_doc, pdf_k, pdf_tables, pdfOthers>>

PdfInit ==
    /\ pdf_doc \in PdfDocs
    /\ pdf_k = 0
    /\ pdf_tables = <<>>
    /\ pdf_out = <<>>
    /\ pdf_pc = "tables"
    /\ CapIdle /\ RpIdle /\ DdIdle /\ EpIdle /\ ApiIdle
PdfNext ==
    \/ PdfReadRaises \/ PdfTableKept \/ PdfTableEmpty \/ PdfTableRaises \/ PdfTableSkipped
    \/ PdfTablesReturned \/ PdfUseTables \/ PdfFallback
SpecPdf == PdfInit /\ [][PdfNext]_vars

(***************************************************************************)
(* Properties of process_pdf (SpecPdf)                                     *)
(***************************************************************************)
\* the tables of the document that the result is built from
UsedTables == IF pdf_out.extraction_method = "camelot_tables" THEN Range(pdf_tables) ELSE {}
\* the transactions of the result are those of the text scan and no others
OnlyFromTextScan ==
    /\ \A k \in 1..Len(pdf_out.transactions) :
            pdf_out.transactions[k].extraction_method = "pdfminer_text"
    /\ Len(pdf_out.transactions) = (IF pdf_doc.text_raises THEN 0 ELSE pdf_doc.text_lines)
\* extraction went through without raising
ExtractionRaised ==
    \/ pdf_doc.read_raises
    \/ \E k \in 1..Len(pdf_doc.detected) :
        /\ pdf_doc.detected[k].accuracy > 50 /\ pdf_doc.detected[k].outcome = "raises"
\* C10 (amended): a detected table is used only if its accuracy is above 50
\* and it is not empty after cleaning; the result reports the text-fallback
\* method if and only if no such table remains (none detected, every table at
\* or below 50 or empty after cleaning, or table extraction raised), and then
\* its transactions come from the text scan alone; processing always goes on
\* to a result.
C10_FallbackIffNoUsableTable ==
    /\ pdf_pc = "done" =>
        /\ \A t \in UsedTables : t.accuracy > 50 /\ t.outcome = "kept"
        /\ pdf_out.extraction_method = "pdfminer_text" <=>
              \/ ExtractionRaised
              \/ \A k \in 1..Len(pdf_doc.detected) :
                    ~(pdf_doc.detected[k].accuracy > 50 /\ pdf_doc.detected[k].outcome = "kept")
        /\ pdf_out.extraction_method = "pdfminer_text" => OnlyFromTextScan
    /\ pdf_pc \in {"tables", "branch"} => ENABLED PdfNext
\* C10 as stated: usable means an accuracy not below 50
C10_FallbackIffAllBelowThreshold ==
    pdf_pc = "done" =>
        /\ \A t \in UsedTables : t.accuracy >= 50
        /\ pdf_out.extraction_method = "pdfminer_text" <=>
              \A k \in 1..Len(pdf_doc.detected) : pdf_doc.detected[k].accuracy < 50
        /\ pdf_out.extraction_method = "pdfminer_text" => OnlyFromTextScan
\* the one detected table has an accuracy of 40: it is discarded and the
\* result, built from the text scan, reports the text method
C10_Witness ==
    /\ pdf_pc = "done"
    /\ Len(pdf_doc.detected) = 1 /\ pdf_doc.detected[1].accuracy = 40
    /\ ~pdf_doc.read_raises /\ ~pdf_doc.text_raises /\ pdf_doc.text_lines = 1
    /\ pdf_out.extraction_method = "pdfminer_text"
    /\ Len(pdf_out.transactions) = 1

(***************************************************************************)
(* pdf_processor_server.py: the process_bank_pdf tool                      *)
(* handle_call_tool -> process_bank_pdf -> parse_transaction_table ->      *)
(* parse_capital_one_transactions, as functions of the document.           *)
(***************************************************************************)
LineUber == <<"A","p","r"," ","1","5"," ","A","p","r"," ","1","6"," ","U","B","E","R","*"," ","E","A","T","S","C","I","U","D","A","D"," ","D","E"," ","M","E","X","C","D","M"," ","$","2","6",".","0","3">>
LineRateLong == <<"1","9",".","9","3","1","6","1","7","3","6","5"," ","E","x","c","h","a","n","g","e"," ","R","a","t","e">>
\* line_facts of every line a cell of a document can hold, evaluated once
CellLineFacts == [l \in LineCatalogue \cup {LineUber, LineRateLong} |-> line_facts(l)]

\* lines 547-552: transaction.update({...}), from the facts of the three lines
transaction_update(t, f1, f2, f3) ==
    [ k \in DOMAIN t \cup {"original_amount", "original_currency", "exchange_rate", "has_forex"} |->
        CASE k = "original_amount" -> Mills(f1.original_amount)
          [] k = "original_currency" -> f2.currency_code
          [] k = "exchange_rate" -> Val(f3.exchange_rate)
          [] k = "has_forex" -> TRUE
          [] OTHER -> t[k] ]
\* lines 472-559: one pass of the loop body at cursor k over the line facts F:
\* how far the cursor moves, what is appended, whether float() of line 543
\* or 545 raised
line_step(F, k) ==
    LET f == F[k + 1]
        plain == ~f.blank /\ ~f.skip /\ f.match /\ f.amount # 0
        forex == /\ plain /\ k + 3 < Len(F)
                 /\ F[k + 2].original_amount_match
                 /\ F[k + 3].currency_match
                 /\ F[k + 4].exchange_rate_match
    IN IF ~plain THEN [raised |-> FALSE, advance |-> 1, emitted |-> <<>>]
       ELSE IF ~forex THEN [raised |-> FALSE, advance |-> 1, emitted |-> <<f.transaction>>]
       ELSE IF F[k + 2].original_amount.ok /\ F[k + 4].exchange_rate.ok
            THEN [raised |-> FALSE, advance |-> forex_skip + 1,
                  emitted |-> <<transaction_update(f.transaction, F[k + 2], F[k + 3], F[k + 4])>>]
            ELSE [raised |-> TRUE, advance |-> 0, emitted |-> <<>>]
\* lines 471-559: the line loop from cursor k on
RECURSIVE capital_one_loop(_, _, _)
capital_one_loop(F, k, acc) ==
    IF k >= Len(F) THEN [raised |-> FALSE, transactions |-> acc]
    ELSE LET st == line_step(F, k)
         IN IF st.raised THEN [raised |-> TRUE, transactions |-> acc]
            ELSE capital_one_loop(F, k + st.advance, acc \o st.emitted)
\* lines 469-559 for the lines ls of one cell
capital_one_lines(ls, acc) ==
    capital_one_loop([n \in 1..Len(ls) |->
                        [blank |-> Strip(ls[n]) = <<>>] @@ CellLineFacts[Strip(ls[n])]], 0, acc)
\* lines 455-470 for one row: a row that is empty or only a header is passed over
capital_one_row(cell, acc) ==
    IF cell = <<>> \/ LowerS(Strip(cell)) \in header_texts
    THEN [raised |-> FALSE, transactions |-> acc]
    ELSE capital_one_lines(SplitOn(Strip(cell), "\n"), acc)
\* lines 454-559: the row loop from row r on; an exception ends it
RECURSIVE capital_one_rows(_, _, _)
RECURSIVE capital_one_rows_after(_, _, _)
capital_one_rows_after(table, r, res) ==
    IF res.raised THEN res ELSE capital_one_rows(table, r + 1, res.transactions)
capital_one_rows(table, r, acc) ==
    IF r > Len(table) THEN [raised |-> FALSE, transactions |-> acc]
    ELSE capital_one_rows_after(table, r, capital_one_row(table[r], acc))
\* parse_capital_one_transactions(table): a table is the list of its rows' first cells
parse_capital_one_transactions(table) == capital_one_rows(table, 1, <<>>)

\* lines 338-342 for one table: a table needs a header and data
table_transactions(table) ==
    IF Len(table) > 1 THEN parse_capital_one_transactions(table)
    ELSE [raised |-> FALSE, transactions |-> <<>>]
\* lines 335-342: the tables of all pages in order from table k on
RECURSIVE page_transactions(_, _, _)
RECURSIVE page_transactions_after(_, _, _, _)
page_transactions_after(tables, k, acc, res) ==
    IF res.raised THEN [raised |-> TRUE, transactions |-> <<>>]
    ELSE page_transactions(tables, k + 1, acc \o res.transactions)
page_transactions(tables, k, acc) ==
    IF k > Len(tables) THEN [raised |-> FALSE, transactions |-> acc]
    ELSE page_transactions_after(tables, k, acc, table_transactions(tables[k]))
\* remove_duplicate_transactions: the key of line 590
duplicate_key(t) ==
    <<t.date, SubSeq(t.description, 1, IF Len(t.description) < 50 THEN Len(t.description) ELSE 50),
      t.amount>>
\* lines 591-593: t is kept unless its key was seen
keep_unseen(unique, t) ==
    IF \E k \in 1..Len(unique) : duplicate_key(unique[k]) = duplicate_key(t)
    THEN unique ELSE Append(unique, t)
RECURSIVE remove_duplicate_transactions(_)
remove_duplicate_transactions(ts) ==
    IF ts = <<>> THEN <<>>
    ELSE keep_unseen(remove_duplicate_transactions(SubSeq(ts, 1, Len(ts) - 1)), ts[Len(ts)])

\* line 351: sum(abs(t["amount"]) for t in transactions if t["amount"] < 0)
RECURSIVE total_debits(_)
total_debits(ts) ==
    IF ts = <<>> THEN 0
    ELSE (IF Head(ts).amount < 0 THEN Abs(Head(ts).amount) ELSE 0) + total_debits(Tail(ts))
\* line 352: sum(t["amount"] for t in transactions if t["amount"] > 0)
RECURSIVE total_credits(_)
total_credits(ts) ==
    IF ts = <<>> THEN 0
    ELSE (IF Head(ts).amount > 0 THEN Head(ts).amount ELSE 0) + total_credits(Tail(ts))
Empty == [k \in {} |-> 0]
\* lines 347-360: the summary (date_range is left out); {} when there is no transaction
bank_pdf_summary(ts) ==
    IF ts # <<>>
    THEN [ transaction_count |-> Len(ts),
           total_debits |-> total_debits(ts),
           total_credits |-> total_credits(ts),
           net_amount |-> total_credits(ts) - total_debits(ts) ]
    ELSE Empty

\* --- documents ---
CellHeader == <<"T","r","a","n","s","a","c","t","i","o","n","s">>
CellPurchase == LinePurchase
CellPayment == LinePayment
CellZero == LineZero
CellForex == Join(<<LineUber, LineOrigAmount, LineCurrency, LineRateLong>>, <<"\n">>)
CellForexBad == Join(<<LinePurchase, LineComma, LineCurrency, LineRate>>, <<"\n">>)
Cells == {CellHeader, CellPurchase, CellPayment, CellZero, CellForex, CellForexBad}
MaxRows == 2
MaxDocTables == 2
\* file: what os.path.exists and pdfplumber.open find; bank: the `bank` argument
\* ("" for None); first_page: the bank whose name the first page shows
BankPdfDocs ==
    [ file : {"missing", "unreadable", "readable"},
      bank : {"", "capital_one", "chase"},
      first_page : {"capital_one", "chase"},
      processor : {"auto", "camelot"},
      tables : SeqsUpTo(SeqsUpTo(Cells, MaxRows), MaxDocTables) ]
\* lines 299-301: the bank the document is processed as
bank_of(doc) == IF doc.bank = "" THEN doc.first_page ELSE doc.bank
\* line 313
uses_camelot(doc) ==
    \/ doc.processor = "camelot"
    \/ doc.processor = "auto" /\ bank_of(doc) \in {"chase", "bank_of_america", "wells_fargo"}
\* lines 197-205: what handle_call_tool answers when the tool raised
tool_error(message) == [error |-> message, success |-> FALSE]

\* lines 295-296: FileNotFoundError, answered by handle_call_tool
BankPdfMissing ==
    /\ ep_pc = "call" /\ ep_doc.file = "missing"
    /\ ep_out' = tool_error("File not found")
    /\ ep_pc' = "done"
    /\ UNCHANGED <<ep_doc, epOthers>>
\* lines 299-300: detect_bank raises on a file pdfplumber cannot open, outside the try
BankPdfDetectRaises ==
    /\ ep_pc = "call" /\ ep_doc.file = "unreadable" /\ ep_doc.bank = ""
    /\ ep_out' = tool_error("pdfplumber.open raised")
    /\ ep_pc' = "done"
    /\ UNCHANGED <<ep_doc, epOthers>>
\* lines 313-320 and 347-363: the placeholder CamelotFinancialProcessor of lines 40-42
BankPdfCamelot ==
    /\ ep_pc = "call" /\ ep_doc.file # "missing"
    /\ ~(ep_doc.file = "unreadable" /\ ep_doc.bank = "")
    /\ uses_camelot(ep_doc)
    /\ ep_out' = [ bank |-> bank_of(ep_doc), processor_used |-> "camelot",
                   transactions |-> <<>>,
                   metadata |-> [error |-> "CamelotProcessor not available"],
                   summary |-> bank_pdf_summary(<<>>), success |-> TRUE ]
    /\ ep_pc' = "done"
    /\ UNCHANGED <<ep_doc, epOthers>>
\* lines 365-368: the except clause
bank_pdf_failed(doc, message) ==
    [ bank |-> bank_of(doc), processor_used |-> "pdfplumber", transactions |-> <<>>,
      metadata |-> IF doc.file = "unreadable" THEN Empty ELSE [bank |-> bank_of(doc)],
      summary |-> Empty, success |-> FALSE, error |-> message ]
\* lines 345-363: duplicates removed, summary, success
bank_pdf_succeeded(doc, ts) ==
    [ bank |-> bank_of(doc), processor_used |-> "pdfplumber", transactions |-> ts,
      metadata |-> [bank |-> bank_of(doc)], summary |-> bank_pdf_summary(ts), success |-> TRUE ]
\* lines 322-368 once the tables are parsed
bank_pdf_parsed(doc, parsed) ==
    IF parsed.raised THEN bank_pdf_failed(doc, "could not convert string to float")
    ELSE bank_pdf_succeeded(doc, remove_duplicate_transactions(parsed.transactions))
\* line 327 raises: pdfplumber cannot open the file (lines 365-368)
BankPdfPlumberRaises ==
    /\ ep_pc = "call" /\ ep_doc.file = "unreadable" /\ ep_doc.bank # ""
    /\ ~uses_camelot(ep_doc)
    /\ ep_out' = bank_pdf_failed(ep_doc, "pdfplumber.open raised")
    /\ ep_pc' = "done"
    /\ UNCHANGED <<ep_doc, epOthers>>
\* lines 322-368: the tables of the PDF parsed; then duplicates removed, summary
\* and success, or the except clause when a row raised
BankPdfPlumber ==
    /\ ep_pc = "call" /\ ep_doc.file = "readable"
    /\ ~uses_camelot(ep_doc)
    /\ ep_out' = bank_pdf_parsed(ep_doc, page_transactions(ep_doc.tables, 1, <<>>))
    /\ ep_pc' = "done"
    /\ UNCHANGED <<ep_doc, epOthers>>

BankPdfInit ==
    /\ ep_doc \in BankPdfDocs
    /\ ep_out = <<>>
    /\ ep_pc = "call"
    /\ CapIdle /\ RpIdle /\ DdIdle /\ PdfIdle /\ ApiIdle
BankPdfNext ==
    \/ BankPdfMissing \/ BankPdfDetectRaises \/ BankPdfCamelot
    \/ BankPdfPlumberRaises \/ BankPdfPlumber
SpecBankPdf == BankPdfInit /\ [][BankPdfNext]_vars

(***************************************************************************)
(* Properties of the process_bank_pdf tool (SpecBankPdf)                   *)
(***************************************************************************)
\* what each cell yields when it is the only row parsed
CellAlone == [c \in Cells |-> capital_one_row(c, <<>>)]
\* the document went through the pdfplumber branch
PlumberRun == ep_pc = "done" /\ ep_doc.file = "readable" /\ ~uses_camelot(ep_doc)
\* the cells of the tables that are parsed (a table needs more than one row)
SiblingCells ==
    UNION { { ep_doc.tables[k][r] : r \in 1..Len(ep_doc.tables[k]) } :
            k \in {n \in 1..Len(ep_doc.tables) : Len(ep_doc.tables[n]) > 1} }
\* C11: a row that raises while it is parsed is skipped on its own: the
\* document is not reported as failed and the transactions of every sibling
\* row of every table are in the result.
C11_RaisingRowSkippedAlone ==
    PlumberRun =>
        /\ ep_out.success
        /\ \A c \in SiblingCells :
             ~CellAlone[c].raised =>
                \A t \in Range(CellAlone[c].transactions) : t \in Range(ep_out.transactions)

\* the run of the parser on a table whose one data row is the four-line cell
\* 'Apr 15 Apr 16 UBER* EATSCIUDAD DE MEXCDM $26.03' / '$518.82' / 'MXN' /
\* '19.931617365 Exchange Rate'
UberForexRun == PlumberRun /\ ep_doc.tables = << <<CellHeader, CellForex>> >>
\* C18: the four-line Uber text yields exactly one transaction, dated
\* 2025-04-16 (the post date, in ISO form), whose description contains UBER,
\* whose amount is -26.03, with has_forex, original amount 518.82, original
\* currency MXN and exchange rate 19.931617365.
C18_UberForexExample ==
    UberForexRun =>
        /\ Len(ep_out.transactions) = 1
        /\ ep_out.transactions[1].date = <<"2","0","2","5","-","0","4","-","1","6">>
        /\ Contains(ep_out.transactions[1].description, <<"U","B","E","R">>)
        /\ ep_out.transactions[1].amount = -26030
        /\ ep_out.transactions[1].has_forex
        /\ ep_out.transactions[1].original_amount = 518820
        /\ ep_out.transactions[1].original_currency = <<"M","X","N">>
        /\ ep_out.transactions[1].exchange_rate = [neg |-> FALSE, ip |-> 19, fp |-> 931617365]


(***************************************************************************)
(* The CSV date parsers (csv_processor_backup.parse_date and               *)
(* EnhancedCSVProcessor.parse_date_with_year) and datetime.strptime for    *)
(* the directives of their format lists. A format is a pattern whose       *)
(* capture group 1 is the year, 2 the month and 3 the day.                 *)
(***************************************************************************)
MonthFull ==
    << <<"j","a","n","u","a","r","y">>, <<"f","e","b","r","u","a","r","y">>, <<"m","a","r","c","h">>, <<"a","p","r","i","l">>, <<"m","a","y">>, <<"j","u","n","e">>,
       <<"j","u","l","y">>, <<"a","u","g","u","s","t">>, <<"s","e","p","t","e","m","b","e","r">>, <<"o","c","t","o","b","e","r">>, <<"n","o","v","e","m","b","e","r">>, <<"d","e","c","e","m","b","e","r">> >>
\* _strptime.TimeRE: '%d' is 3[0-1]|[1-2]\d|0[1-9]|[1-9]| [1-9]
DayAlts ==
    <<IntStr(30), IntStr(31)>> \o [k \in 1..20 |-> IntStr(k + 9)] \o [k \in 1..9 |-> Pad2(k)]
    \o [k \in 1..9 |-> IntStr(k)] \o [k \in 1..9 |-> <<" ">> \o IntStr(k)]
\* '%m' is 1[0-2]|0[1-9]|[1-9]
MonthAlts == [k \in 1..3 |-> IntStr(k + 9)] \o [k \in 1..9 |-> Pad2(k)] \o [k \in 1..9 |-> IntStr(k)]
\* '%B': the month names, longest first; '%b': the abbreviations
MonthFullAlts ==
    << MonthFull[9], MonthFull[2], MonthFull[11], MonthFull[12], MonthFull[1], MonthFull[10],
       MonthFull[8], MonthFull[3], MonthFull[4], MonthFull[6], MonthFull[7], MonthFull[5] >>
MonthAbbrAlts == [k \in 1..12 |-> LowerS(MonthAbbr[k])]
DirY == Cls(Digits, 4, 4, 1)
Diry == Cls(Digits, 2, 2, 1)
Dirm == Alt(MonthAlts, 2)
Dirb == Alt(MonthAbbrAlts, 2)
DirB == Alt(MonthFullAlts, 2)
Dird == Alt(DayAlts, 3)
\* whitespace in a format stands for \s+
DirWS == Cls(Space, 1, Inf, 0)

\* the fields of a match as datetime(year, month, day); <<>> stands for ValueError
strptime_fields(format, s, m) ==
    IF m = <<>> \/ m[Len(format) + 1] # Len(s) + 1 THEN <<>>
    ELSE LET written == IF \E k \in 1..Len(format) : format[k].g = 1 THEN Group(format, s, m, 1) ELSE <<>>
             year == IF written = <<>> THEN 1900
                     ELSE IF Len(written) = 4 THEN DigitsVal(written)
                     ELSE IF DigitsVal(written) <= 68 THEN 2000 + DigitsVal(written)
                     ELSE 1900 + DigitsVal(written)
             month_text == Group(format, s, m, 2)
             month == IF AllDigits(month_text) THEN DigitsVal(month_text)
                      ELSE MonthNum(SubSeq(month_text, 1, 3))
             day == DigitsVal(Strip(Group(format, s, m, 3)))
         IN IF year >= 1 /\ day <= DaysIn(year, month)
            THEN [year |-> year, month |-> month, day |-> day]
            ELSE <<>>
\* datetime.strptime(date_string, format): matched ignoring case, from the
\* start, and the whole string must be consumed
strptime(date_string, format) ==
    strptime_fields(format, LowerS(date_string), ReMatch(format, LowerS(date_string)))

\* the formats of parse_date (csv_processor_backup.py lines 222-232)
parse_date_formats ==
    << <<DirY, Lit(<<"-">>, 0), Dirm, Lit(<<"-">>, 0), Dird>>,
       <<Dirm, Lit(<<"/">>, 0), Dird, Lit(<<"/">>, 0), DirY>>,
       <<Dirm, Lit(<<"-">>, 0), Dird, Lit(<<"-">>, 0), DirY>>,
       <<Dird, Lit(<<"/">>, 0), Dirm, Lit(<<"/">>, 0), DirY>>,
       <<DirY, Lit(<<"/">>, 0), Dirm, Lit(<<"/">>, 0), Dird>>,
       <<Dirb, DirWS, Dird, Lit(<<",">>, 0), DirWS, DirY>>,
       <<DirB, DirWS, Dird, Lit(<<",">>, 0), DirWS, DirY>>,
       <<Dird, DirWS, Dirb, DirWS, DirY>>,
       <<Dird, DirWS, DirB, DirWS, DirY>> >>
\* the formats parse_date_with_year adds (csv_processor_enhanced_fixed.py line 321)
short_formats ==
    << <<Dirm, Lit(<<"/">>, 0), Dird, Lit(<<"/">>, 0), Diry>>,
       <<Dirm, Lit(<<"-">>, 0), Dird, Lit(<<"-">>, 0), Diry>>,
       <<Dirb, DirWS, Dird>>,
       <<DirB, DirWS, Dird>>,
       <<Dirm, Lit(<<"/">>, 0), Dird>>,
       <<Dirm, Lit(<<"-">>, 0), Dird>> >>

\* the result of the first format of the list that parses; <<>> when none does
first_parsed(date_str, formats) ==
    LET ks == {k \in 1..Len(formats) : strptime(date_str, formats[k]) # <<>>}
    IN IF ks = {} THEN <<>>
       ELSE strptime(date_str, formats[CHOOSE k \in ks : \A j \in ks : k <= j])

date_or_input(date_str, parsed) ==
    IF parsed = <<>> THEN date_str ELSE FormatDate(parsed.year, parsed.month, parsed.day)
\* csv_processor_backup.parse_date
parse_date(date_str) ==
    date_or_input(Strip(date_str), first_parsed(Strip(date_str), parse_date_formats))

\* line 328-329: a parsed year of 1900 is replaced by the current year
with_current_year(parsed, current_year) ==
    IF parsed # <<>> /\ parsed.year = 1900 THEN [parsed EXCEPT !.year = current_year] ELSE parsed
\* EnhancedCSVProcessor.parse_date_with_year
parse_date_with_year(date_str, current_year) ==
    date_or_input(Strip(date_str),
                  with_current_year(first_parsed(Strip(date_str), parse_date_formats \o short_formats),
                                    current_year))


(***************************************************************************)
(* The date parsers applied to one date string                             *)
(***************************************************************************)
Str(s) == [returned |-> "str", value |-> s]
DateTexts ==
    { <<"2","0","2","4","-","0","1","-","1","5">>, <<"1","9","0","0","-","0","1","-","1","5">>, <<"2","0","2","4","-","0","2","-","2","9">>, <<"2","0","2","4","-","0","2","-","3","0">>,
      <<"0","1","/","1","5","/","2","0","2","4">>, <<"0","1","/","1","5","/","1","9","0","0">>, <<"1","3","/","0","1","/","2","0","2","4">>, <<"0","1","-","1","5","-","2","0","2","4">>, <<"2","0","2","4","/","0","1","/","1","5">>,
      <<"J","a","n"," ","1","5",","," ","2","0","2","4">>, <<"J","a","n"," ","1","5",","," ","1","9","0","0">>, <<"J","a","n","u","a","r","y"," ","1","5",","," ","2","0","2","4">>, <<"1","5"," ","J","a","n"," ","2","0","2","4">>, <<"1","5"," ","M","a","r","c","h"," ","2","0","2","4">>,
      <<"0","1","/","1","5","/","2","4">>, <<"0","1","/","1","5","/","6","9">>, <<"0","1","-","1","5","-","2","4">>,
      <<"J","a","n"," ","1","5">>, <<"A","p","r"," ","1","6">>, <<"M","a","r","c","h"," ","3">>, <<"F","e","b"," ","2","9">>, <<"1","/","5">>, <<"1","2","-","2","5">>, <<"0","2","/","3","0">>,
      <<"2","0","2","3"," ","A","p","r"," ","1","5">>, <<"A","p","r"," ","1","5"," ","2","0","2","3">>, <<"S","e","p","t"," ","3","1"," ","2","0","2","4">>, <<"g","a","r","b","a","g","e">>, <<"P","E","N","D","I","N","G">> }
CurrentYears == {2024, 2025}
DateInputs == [text : DateTexts, current_year : CurrentYears]

ParseDate ==
    /\ rp_parser = "none"
    /\ rp_parser' = "parse_date"
    /\ rp_result' = Str(parse_date(rp_input.text))
    /\ UNCHANGED <<rp_input, rpOthers>>

ParseDateWithYear ==
    /\ rp_parser = "none"
    /\ rp_parser' = "parse_date_with_year"
    /\ rp_result' = Str(parse_date_with_year(rp_input.text, rp_input.current_year))
    /\ UNCHANGED <<rp_input, rpOthers>>

returned_date(result) == IF result = <<>> THEN None ELSE Str(result)
ParseDateString ==
    /\ rp_parser = "none"
    /\ rp_parser' = "parse_date_string"
    /\ rp_result' = returned_date(parse_date_string(rp_input.text))
    /\ UNCHANGED <<rp_input, rpOthers>>

DatesInit ==
    /\ rp_input \in DateInputs /\ rp_parser = "none" /\ rp_result = <<>>
    /\ CapIdle /\ DdIdle /\ PdfIdle /\ EpIdle /\ ApiIdle
DatesNext == ParseDate \/ ParseDateWithYear \/ ParseDateString
SpecDates == DatesInit /\ [][DatesNext]_vars


(***************************************************************************)
(* Date normalization                                                      *)
(***************************************************************************)
DateParsers == {"parse_date", "parse_date_with_year", "parse_date_string"}
IsoPattern ==
    << Cls(Digits, 4, 4, 1), Lit(<<"-">>, 0), Cls(Digits, 2, 2, 2), Lit(<<"-">>, 0),
       Cls(Digits, 2, 2, 3), EndAnchor >>
IsIsoDate(s) == ReMatch(IsoPattern, s) # <<>>
\* the year written in a date string: its first run of four digits
WrittenYear(s) ==
    IF ReSearch(<<Cls(Digits, 4, 4, 1)>>, s) = <<>> THEN <<>>
    ELSE Group0(<<Cls(Digits, 4, 4, 1)>>, s, ReSearch(<<Cls(Digits, 4, 4, 1)>>, s))
\* the parser of the state applied to a string
Normalized(s) ==
    CASE rp_parser = "parse_date" -> Str(parse_date(s))
      [] rp_parser = "parse_date_with_year" -> Str(parse_date_with_year(s, rp_input.current_year))
      [] rp_parser = "parse_date_string" -> returned_date(parse_date_string(s))

\* C17: date normalization round-trips: normalizing the result again gives the
\* same value; an input that is not turned into an ISO date is returned
\* unchanged (as the string it was); and a year written in the input is the
\* year of the normalized date.
C17_DateNormalizationRoundTrips ==
    rp_parser \in DateParsers =>
        /\ rp_result.returned = "str"
        /\ Normalized(rp_result.value) = rp_result
        /\ ~IsIsoDate(rp_result.value) => rp_result.value = rp_input.text
        /\ (IsIsoDate(rp_result.value) /\ WrittenYear(rp_input.text) # <<>>) =>
               SubSeq(rp_result.value, 1, 4) = WrittenYear(rp_input.text)


(***************************************************************************)
(* csv_processor_enhanced_fixed.py: format detection and section splitting *)
(***************************************************************************)
\* re.split(r'[,;\t|]', s)
RECURSIVE split_delimiters(_)
split_delimiters(s) ==
    IF \A k \in 1..Len(s) : s[k] \notin {",", ";", "\t", "|"} THEN <<s>>
    ELSE LET k == CHOOSE k \in 1..Len(s) :
                      s[k] \in {",", ";", "\t", "|"} /\ \A j \in 1..(k - 1) : s[j] \notin {",", ";", "\t", "|"}
         IN <<SubSeq(s, 1, k - 1)>> \o split_delimiters(SubSeq(s, k + 1, Len(s)))
\* lines 74-77: the stripped, non-empty fields of the lower-cased line
header_parts(line) ==
    SelectSeq([k \in 1..Len(split_delimiters(LowerS(line))) |-> Strip(split_delimiters(LowerS(line))[k])],
              LAMBDA part : part # <<>>)
header_keywords ==
    << <<"d","a","t","e">>, <<"t","r","a","n","s">>, <<"p","o","s","t">>, <<"d","e","s","c","r","i","p","t","i","o","n">>, <<"a","m","o","u","n","t">>, <<"d","e","b","i","t">>,
       <<"c","r","e","d","i","t">>, <<"b","a","l","a","n","c","e">>, <<"c","a","t","e","g","o","r","y">>, <<"t","y","p","e">>, <<"m","e","r","c","h","a","n","t">>, <<"p","a","y","e","e">> >>
\* r'^-?\$?\d+\.?\d*'
leading_amount ==
    << Cls({"-"}, 0, 1, 0), Cls({"$"}, 0, 1, 0), Cls(Digits, 1, Inf, 0), Cls({"."}, 0, 1, 0),
       Cls(Digits, 0, Inf, 0) >>
\* lines 98-99
loose_header(parts) ==
    Cardinality({n \in 1..Len(parts) :
        \E k \in 1..Len(header_keywords) : Contains(parts[n], header_keywords[k])}) >= 2
\* lines 88-95 on the fields of a line
strict_header(parts) ==
    LET keyword_matches ==
            Cardinality({n \in 1..Len(parts) :
                \E k \in 1..Len(header_keywords) :
                    header_keywords[k] = parts[n] \/ header_keywords[k] \in Range(SplitWS(parts[n]))})
        has_amount == \E n \in 1..Len(parts) : ReMatch(leading_amount, parts[n]) # <<>>
        has_merchant_names == \E n \in 1..Len(parts) : Len(parts[n]) > 20
    IN keyword_matches >= 2 /\ ~has_amount /\ ~has_merchant_names
\* EnhancedCSVProcessor._is_header_line
is_header_line(line, strict) ==
    IF strict THEN strict_header(header_parts(line)) ELSE loose_header(header_parts(line))

\* lines 52-69 on the lines of the content
format_of(content_lines) ==
    LET headers == {n \in 1..Len(content_lines) : is_header_line(content_lines[n], TRUE)}
        header_count == Cardinality(headers)
        first_header_index == IF headers = {} THEN -1
                              ELSE (CHOOSE n \in headers : \A j \in headers : n <= j) - 1
    IN IF header_count = 1 /\ first_header_index < 5 THEN "single_header"
       ELSE IF header_count > 1 THEN "multi_section"
       ELSE "single_header"
\* EnhancedCSVProcessor.detect_format
detect_format(file_content) == format_of(SplitOn(Strip(file_content), "\n"))

\* lines 291-295 and 305-309
section(current_section, end) ==
    [header |-> current_section[1], data |-> Tail(current_section),
     start_line |-> end - Len(current_section) + 1]
\* the loop of lines 280-301 from the line of index n (0-based) on, then lines 304-309
RECURSIVE sections_from(_, _, _, _)
sections_from(content_lines, n, sections, current_section) ==
    IF n = Len(content_lines)
    THEN (IF current_section # <<>>
          THEN Append(sections, section(current_section, Len(content_lines)))
          ELSE sections)
    ELSE LET line == Strip(content_lines[n + 1]) IN
         sections_from(content_lines, n + 1,
             IF line # <<>> /\ is_header_line(line, FALSE) /\ current_section # <<>>
             THEN Append(sections, section(current_section, n))
             ELSE sections,
             IF line = <<>> THEN current_section
             ELSE IF is_header_line(line, FALSE) THEN <<line>>
             ELSE Append(current_section, line))
\* EnhancedCSVProcessor.detect_sections
detect_sections(file_content) == sections_from(SplitOn(Strip(file_content), "\n"), 0, <<>>, <<>>)


(***************************************************************************)
(* Format detection applied to one CSV content                             *)
(***************************************************************************)
LineHeader == <<"D","a","t","e",",","D","e","s","c","r","i","p","t","i","o","n",",","A","m","o","u","n","t">>
LineHeaderChase == <<"T","r","a","n","s","a","c","t","i","o","n"," ","D","a","t","e",",","P","o","s","t"," ","D","a","t","e",",","D","e","s","c","r","i","p","t","i","o","n",",","C","a","t","e","g","o","r","y",",","T","y","p","e",",","A","m","o","u","n","t">>
LineCoffee == <<"2","0","2","4","-","0","1","-","0","1",",","C","o","f","f","e","e"," ","S","h","o","p",",","-","5",".","7","5">>
LineCardPayment == <<"0","1","/","0","2","/","2","0","2","4",",","C","R","E","D","I","T"," ","C","A","R","D"," ","P","A","Y","M","E","N","T",",","D","E","B","I","T",",","-","5","0",".","0","0">>
LineDivider == <<"J","O","H","N"," ","D","O","E"," ","1","2","3","4"," ","T","r","a","n","s","a","c","t","i","o","n","s">>
LineHeaderLong == <<"D","a","t","e",",","M","e","r","c","h","a","n","t"," ","N","a","m","e"," ","A","n","d"," ","A","d","d","r","e","s","s",",","A","m","o","u","n","t">>
CsvLines == {LineHeader, LineHeaderChase, LineCoffee, LineCardPayment, LineDivider, LineHeaderLong, <<>>}
MaxCsvLines == 4
CsvContents == UNION { [1..n -> CsvLines] : n \in 1..MaxCsvLines }
file_content_of(content_lines) == Join(content_lines, <<"\n">>)

DetectFormat ==
    /\ rp_parser = "none"
    /\ rp_parser' = "detect_format"
    /\ rp_result' = [format |-> detect_format(file_content_of(rp_input))]
    /\ UNCHANGED <<rp_input, rpOthers>>

DetectSections ==
    /\ rp_parser = "none"
    /\ rp_parser' = "detect_sections"
    /\ rp_result' = [sections |-> detect_sections(file_content_of(rp_input))]
    /\ UNCHANGED <<rp_input, rpOthers>>

CsvFormatInit ==
    /\ rp_input \in CsvContents /\ rp_parser = "none" /\ rp_result = <<>>
    /\ CapIdle /\ DdIdle /\ PdfIdle /\ EpIdle /\ ApiIdle
CsvFormatNext == DetectFormat \/ DetectSections
SpecCsvFormat == CsvFormatInit /\ [][CsvFormatNext]_vars


(***************************************************************************)
(* Classification and splitting of CSV contents                            *)
(***************************************************************************)
\* the strict header test as stated: at least two fields that are, or hold as
\* a word, a header keyword; no field that begins with an amount; no field
\* longer than 20 characters
KeywordField(field) == \E k \in 1..Len(header_keywords) : header_keywords[k] \in Range(SplitWS(field))
Unsigned(field) ==
    LET a == IF field # <<>> /\ Head(field) = "-" THEN Tail(field) ELSE field
    IN IF a # <<>> /\ Head(a) = "$" THEN Tail(a) ELSE a
BeginsWithAmount(field) == Unsigned(field) # <<>> /\ Head(Unsigned(field)) \in Digits
PassesHeaderTest(line) ==
    LET fields == header_parts(line) IN
    /\ Cardinality({n \in 1..Len(fields) : KeywordField(fields[n])}) >= 2
    /\ \A n \in 1..Len(fields) : ~BeginsWithAmount(fields[n]) /\ Len(fields[n]) <= 20
HeaderLines == {n \in 1..Len(rp_input) : PassesHeaderTest(rp_input[n])}

\* C19: detect_format classifies by the number of lines passing the strict
\* header test: exactly one such line, within the first five lines, gives
\* 'single_header'; more than one gives 'multi_section'.
C19_ClassifiedByHeaderCount ==
    rp_parser = "detect_format" =>
        /\ (Cardinality(HeaderLines) = 1 /\ \E n \in HeaderLines : n <= 5) =>
               rp_result.format = "single_header"
        /\ Cardinality(HeaderLines) > 1 => rp_result.format = "multi_section"
\* two header lines with data rows between them, one of which names CREDIT and DEBIT
C19_Witness ==
    /\ rp_parser = "detect_format"
    /\ rp_input = <<LineHeader, LineCardPayment, LineHeaderChase, LineCoffee>>
    /\ rp_result.format = "multi_section"

RECURSIVE section_lines(_)
section_lines(sections) ==
    IF sections = <<>> THEN <<>>
    ELSE <<Head(sections).header>> \o Head(sections).data \o section_lines(Tail(sections))
NonEmptyLines == SelectSeq([n \in 1..Len(rp_input) |-> Strip(rp_input[n])], LAMBDA l : l # <<>>)

\* C20: detect_sections splits a multi-section file at its header lines: every
\* section's header passes the header test (in its loosest reading, the test
\* the splitter applies), there are as many sections as header lines counted
\* by detect_format, and the sections' headers and data are, in file order,
\* exactly the non-empty lines of the file.
C20_SectionsSplitAtHeaders ==
    (rp_parser = "detect_sections" /\ Cardinality(HeaderLines) > 1) =>
        /\ \A k \in 1..Len(rp_result.sections) : is_header_line(rp_result.sections[k].header, FALSE)
        /\ Len(rp_result.sections) = Cardinality(HeaderLines)
        /\ section_lines(rp_result.sections) = NonEmptyLines


(***************************************************************************)
(* The CSV entry points: csv_processor_backup.process_csv_file and         *)
(* EnhancedCSVProcessor.process_csv_file applied to one file. The file has *)
(* the header Date,Description,Amount and rows of three fields; category,  *)
(* confidence and raw_data of a transaction are left out.                  *)
(***************************************************************************)
RowDateFields == {<<>>, <<"2","0","2","4","-","0","1","-","0","1">>, <<"J","a","n"," ","1","5">>}
RowDescriptionFields == {<<>>, <<"C","o","f","f","e","e"," ","S","h","o","p">>}
RowAmountFields == {<<>>, <<"0",".","0","0">>, <<"-","5",".","7","5">>, <<"1","2",".","5","0">>}
\* the header written a second time, as at the start of a further section
RowHeaderAgain == [date |-> <<"D","a","t","e">>, description |-> <<"D","e","s","c","r","i","p","t","i","o","n">>, amount |-> <<"A","m","o","u","n","t">>]
CsvRows ==
    [date : RowDateFields, description : RowDescriptionFields, amount : RowAmountFields]
    \cup {RowHeaderAgain}
MaxCsvRows == 2
\* entry: the processor called; file: what open() finds; year: datetime.now().year
CsvDocs ==
    [ entry : {"csv_processor_backup", "EnhancedCSVProcessor"},
      file : {"readable"}, year : {2025},
      rows : SeqsUpTo(CsvRows, MaxCsvRows) ]
    \cup [ entry : {"csv_processor_backup", "EnhancedCSVProcessor"},
           file : {"missing", "unreadable"}, year : {2025}, rows : {<<>>} ]
open_error(doc) == IF doc.file = "missing" THEN "No such file or directory" ELSE "Permission denied"
\* the text of the file
csv_content(doc) ==
    Join(<<LineHeader>> \o [k \in 1..Len(doc.rows) |->
            Join(<<doc.rows[k].date, doc.rows[k].description, doc.rows[k].amount>>, <<",">>)],
         <<"\n">>)

\* csv_processor_backup.py lines 112-201 for one row: <<>> when the row is skipped
backup_row(row) ==
    IF Strip(row.date) = <<>> \/ Strip(row.amount) = <<>> THEN <<>>
    ELSE << [ date |-> parse_date(Strip(row.date)),
              description |-> IF Strip(row.description) # <<>> THEN Strip(row.description)
                              ELSE <<"U","n","k","n","o","w","n">>,
              amount |-> csv_parse_amount(Strip(row.amount)) ] >>
RECURSIVE backup_rows(_)
backup_rows(rows) == IF rows = <<>> THEN <<>> ELSE backup_row(Head(rows)) \o backup_rows(Tail(rows))
\* lines 203-214
backup_result(ts) ==
    [ transactions |-> ts, metadata |-> [total_transactions |-> Len(ts)],
      status |-> IF ts # <<>> THEN "completed" ELSE "error" ]
\* lines 206-214 (and lines 120-128 of the enhanced processor) when open() raised
csv_failed(message) ==
    [ transactions |-> <<>>, metadata |-> [error |-> message, total_transactions |-> 0],
      status |-> "error" ]

\* csv_processor_enhanced_fixed.py lines 152-222 for one row
enhanced_row(row, year) ==
    IF Strip(row.date) = <<>> \/ parse_amount_enhanced(Strip(row.amount)) = 0 THEN <<>>
    ELSE << [ date |-> parse_date_with_year(Strip(row.date), year),
              description |-> Strip(row.description),
              amount |-> parse_amount_enhanced(Strip(row.amount)),
              has_forex |-> FALSE ] >>
RECURSIVE enhanced_rows(_, _)
enhanced_rows(rows, year) ==
    IF rows = <<>> THEN <<>> ELSE enhanced_row(Head(rows), year) \o enhanced_rows(Tail(rows), year)
\* lines 226-239 and 258-272; process_section of line 440 returns no transaction
enhanced_result(format, ts) ==
    [ transactions |-> ts, metadata |-> [format |-> format, total_transactions |-> Len(ts)],
      status |-> IF ts # <<>> THEN "completed" ELSE "no_transactions" ]
\* lines 108-114
enhanced_processed(doc, format_type) ==
    IF format_type = "single_header"
    THEN enhanced_result("single_header_csv", enhanced_rows(doc.rows, doc.year))
    ELSE enhanced_result("multi_section_csv", <<>>)

\* csv_processor_backup.process_csv_file: open() raises (lines 206-208)
BackupCsvOpenRaises ==
    /\ ep_pc = "call" /\ ep_doc.entry = "csv_processor_backup" /\ ep_doc.file # "readable"
    /\ ep_out' = csv_failed(open_error(ep_doc))
    /\ ep_pc' = "done"
    /\ UNCHANGED <<ep_doc, epOthers>>
\* csv_processor_backup.process_csv_file on a file it can read
BackupCsv ==
    /\ ep_pc = "call" /\ ep_doc.entry = "csv_processor_backup" /\ ep_doc.file = "readable"
    /\ ep_out' = backup_result(backup_rows(ep_doc.rows))
    /\ ep_pc' = "done"
    /\ UNCHANGED <<ep_doc, epOthers>>
\* EnhancedCSVProcessor.process_csv_file: open() raises (lines 116-128)
EnhancedCsvOpenRaises ==
    /\ ep_pc = "call" /\ ep_doc.entry = "EnhancedCSVProcessor" /\ ep_doc.file # "readable"
    /\ ep_out' = csv_failed(open_error(ep_doc))
    /\ ep_pc' = "done"
    /\ UNCHANGED <<ep_doc, epOthers>>
\* EnhancedCSVProcessor.process_csv_file on a file it can read
EnhancedCsv ==
    /\ ep_pc = "call" /\ ep_doc.entry = "EnhancedCSVProcessor" /\ ep_doc.file = "readable"
    /\ ep_out' = enhanced_processed(ep_doc, detect_format(csv_content(ep_doc)))
    /\ ep_pc' = "done"
    /\ UNCHANGED <<ep_doc, epOthers>>

CsvInit ==
    /\ ep_doc \in CsvDocs
    /\ ep_out = <<>>
    /\ ep_pc = "call"
    /\ CapIdle /\ RpIdle /\ DdIdle /\ PdfIdle /\ ApiIdle
CsvNext == BackupCsvOpenRaises \/ BackupCsv \/ EnhancedCsvOpenRaises \/ EnhancedCsv
SpecCsv == CsvInit /\ [][CsvNext]_vars

\* a result that reports a failure: success false, an error status or an error message
ReportsFailure(result) ==
    \/ "success" \in DOMAIN result /\ ~result.success
    \/ "status" \in DOMAIN result /\ result.status = "error"
    \/ "error" \in DOMAIN result
    \/ "metadata" \in DOMAIN result /\ "error" \in DOMAIN result.metadata

\* C12: a document that is read and yields zero transactions is not an error:
\* its result reports no failure, which tells it from a crashed run.
C12_ZeroTransactionsIsNotAnError ==
    (ep_pc = "done" /\ ep_doc.file = "readable" /\ ep_out.transactions = <<>>) =>
        ~ReportsFailure(ep_out)


\* C13: a missing or unreadable input file is reported as a failure: the
\* result of the run carries success false, an error status or an error
\* message. (The file is one neither camelot nor pdfminer can open; the
\* result of CamelotProcessor.process_pdf is the dictionary of lines 966-977.)
C13_UnreadableFileReported ==
    (pdf_pc = "done" /\ pdf_doc.read_raises /\ pdf_doc.text_raises) => ReportsFailure(pdf_out)

SummaryFields == {"transaction_count", "net_amount", "total_debits", "total_credits"}
\* C14: the summary of every result of a run that succeeded is well-formed: it
\* holds the transaction count, the net amount, the total debits and the
\* total credits, and all of them are zero when the transaction list is empty.
C14_SummaryWellFormed ==
    (ep_pc = "done" /\ ep_out.success) =>
        /\ SummaryFields \subseteq DOMAIN ep_out.summary
        /\ ep_out.transactions = <<>> => \A f \in SummaryFields : ep_out.summary[f] = 0


\* the data rows of the file that have a parsable date, a description and a
\* non-zero amount, in file order
QualifyingRows ==
    SelectSeq(ep_doc.rows, LAMBDA row :
        /\ row # RowHeaderAgain
        /\ IsIsoDate(parse_date_with_year(row.date, ep_doc.year))
        /\ row.description # <<>>
        /\ parse_amount_enhanced(row.amount) # 0)
\* C21: for a file classified as multi_section, every data row under a
\* section header that has a parsable date, a description and a non-zero
\* amount yields one transaction of the result, in section and row order.
C21_MultiSectionRowsParsed ==
    (/\ ep_pc = "done" /\ ep_doc.entry = "EnhancedCSVProcessor" /\ ep_doc.file = "readable"
     /\ ep_out.metadata.format = "multi_section_csv") =>
        /\ Len(ep_out.transactions) = Len(QualifyingRows)
        /\ \A k \in 1..Len(QualifyingRows) :
               /\ ep_out.transactions[k].description = QualifyingRows[k].description
               /\ ep_out.transactions[k].amount = parse_amount_enhanced(QualifyingRows[k].amount)


(***************************************************************************)
(* The summaries: CamelotProcessor.generate_summary, process_bank_pdf and  *)
(* the job summaries of api_server_real.py, applied to one transaction     *)
(* list. A transaction is its amount (in thousandths); category_breakdown  *)
(* and date_range are left out.                                            *)
(***************************************************************************)
SummaryAmounts == {-26030, -5000, 0, 5000, 12500}
MaxSummaryTxns == 3
SummaryInputs == SeqsUpTo([amount : SummaryAmounts], MaxSummaryTxns)

\* sum(t["amount"] for t in transactions)
RECURSIVE sum_amounts(_)
sum_amounts(ts) == IF ts = <<>> THEN 0 ELSE Head(ts).amount + sum_amounts(Tail(ts))
\* camelot_processor.py lines 1137-1157
generate_summary(ts) ==
    IF ts = <<>> THEN [total_transactions |-> 0]
    ELSE [ total_transactions |-> Len(ts),
           net_amount |-> sum_amounts(ts),
           total_debits |-> sum_amounts([k \in 1..Len(SelectSeq(ts, LAMBDA t : t.amount < 0)) |->
                                [amount |-> Abs(SelectSeq(ts, LAMBDA t : t.amount < 0)[k].amount)]]),
           total_credits |-> sum_amounts(SelectSeq(ts, LAMBDA t : t.amount > 0)) ]
\* api_server_real.py lines 283-286 and 296-301
csv_job_summary(ts) ==
    [ total_income |-> sum_amounts(SelectSeq(ts, LAMBDA t : t.amount > 0)),
      total_expenses |-> sum_amounts([k \in 1..Len(SelectSeq(ts, LAMBDA t : ~(t.amount > 0))) |->
                                [amount |-> Abs(SelectSeq(ts, LAMBDA t : ~(t.amount > 0))[k].amount)]]),
      net_amount |-> sum_amounts(SelectSeq(ts, LAMBDA t : t.amount > 0))
                     - sum_amounts([k \in 1..Len(SelectSeq(ts, LAMBDA t : ~(t.amount > 0))) |->
                                [amount |-> Abs(SelectSeq(ts, LAMBDA t : ~(t.amount > 0))[k].amount)]]),
      transaction_count |-> Len(ts) ]
\* api_server_real.py lines 423-426, 439-444 and 458-463
pdf_job_summary(ts) ==
    IF ts = <<>>
    THEN [total_income |-> 0, total_expenses |-> 0, net_amount |-> 0, transaction_count |-> 0]
    ELSE [ total_income |-> sum_amounts(SelectSeq(ts, LAMBDA t : t.amount > 0)),
           total_expenses |-> sum_amounts(SelectSeq(ts, LAMBDA t : ~(t.amount > 0))),
           net_amount |-> sum_amounts(SelectSeq(ts, LAMBDA t : t.amount > 0))
                          + sum_amounts(SelectSeq(ts, LAMBDA t : ~(t.amount > 0))),
           transaction_count |-> Len(ts) ]

GenerateSummary ==
    /\ rp_parser = "none"
    /\ rp_parser' = "generate_summary"
    /\ rp_result' = generate_summary(rp_input)
    /\ UNCHANGED <<rp_input, rpOthers>>
BankPdfSummary ==
    /\ rp_parser = "none"
    /\ rp_parser' = "process_bank_pdf"
    /\ rp_result' = bank_pdf_summary(rp_input)
    /\ UNCHANGED <<rp_input, rpOthers>>
CsvJobSummary ==
    /\ rp_parser = "none"
    /\ rp_parser' = "process_csv_file_async"
    /\ rp_result' = csv_job_summary(rp_input)
    /\ UNCHANGED <<rp_input, rpOthers>>
PdfJobSummary ==
    /\ rp_parser = "none"
    /\ rp_parser' = "process_pdf_with_camelot"
    /\ rp_result' = pdf_job_summary(rp_input)
    /\ UNCHANGED <<rp_input, rpOthers>>

SummaryInit ==
    /\ rp_input \in SummaryInputs /\ rp_parser = "none" /\ rp_result = <<>>
    /\ CapIdle /\ DdIdle /\ PdfIdle /\ EpIdle /\ ApiIdle
SummaryNext == GenerateSummary \/ BankPdfSummary \/ CsvJobSummary \/ PdfJobSummary
SpecSummary == SummaryInit /\ [][SummaryNext]_vars

\* the debits and the credits of a summary, under either pair of names
DebitsOf(summary) ==
    IF "total_debits" \in DOMAIN summary THEN summary.total_debits ELSE summary.total_expenses
CreditsOf(summary) ==
    IF "total_credits" \in DOMAIN summary THEN summary.total_credits ELSE summary.total_income
Summarizers == {"generate_summary", "process_bank_pdf", "process_csv_file_async", "process_pdf_with_camelot"}

\* C15: every summary of a non-empty transaction list uses one convention:
\* total debits (expenses) is the sum of |amount| over the negative amounts,
\* total credits (income) the sum of the positive amounts, and the net amount
\* is credits - debits.
C15_OneSummaryConvention ==
    (rp_parser \in Summarizers /\ rp_input # <<>>) =>
        /\ DebitsOf(rp_result) = total_debits(rp_input)
        /\ CreditsOf(rp_result) = total_credits(rp_input)
        /\ rp_result.net_amount = CreditsOf(rp_result) - DebitsOf(rp_result)


(***************************************************************************)
(* camelot_processor.py: categorize_transaction                            *)
(***************************************************************************)
\* the keyword lists of lines 735-808
category_keywords ==
    [ Taxes |-> { <<"t","a","x">>, <<"f","r","a","n","c","h","i","s","e"," ","t","a","x"," ","b","o","a","r","d">> },
      Business |-> { <<"c","e","n","t","r","o"," ","i","n","m","o","b","i","l","i","a","r","i","o">>, <<"w","o","o","d"," ","c","i","t","y">> },
      Dining |-> { <<"r","e","s","t","a","u","r","a","n","t">>, <<"t","a","c","o"," ","b","e","l","l">>, <<"u","b","e","r"," ","e","a","t","s">>, <<"c","o","c","o"," ","i","c","h","i","b","a","n","y","a">>, <<"c","a","r","n","i","c","e","r","i","a">>,
                   <<"f","r","u","t","e","r","i","a">>, <<"c","h","u","r","r","a","s","c","a","r","i","a">>, <<"p","a","n","e","r","a">>, <<"t","e","j","a","t","e">> },
      Transportation |-> { <<"u","b","e","r"," ","t","r","i","p">>, <<"e","x","x","o","n">>, <<"c","h","e","v","r","o","n">>, <<"j","i","f","f","y"," ","l","u","b","e">>, <<"7","6">>, <<"m","i","r","u","s">> },
      Groceries |-> { <<"7","-","e","l","e","v","e","n">>, <<"o","x","x","o">>, <<"w","a","l","-","m","a","r","t">>, <<"w","a","l","m","a","r","t">> },
      Subscriptions |-> { <<"c","r","u","n","c","h","y","r","o","l","l">>, <<"n","e","t","f","l","i","x">>, <<"g","o","o","g","l","e">>, <<"y","o","u","t","u","b","e">>, <<"c","o","u","r","s","e","r","a">>,
                          <<"f","r","e","e","t","a","x","u","s","a">> },
      Healthcare |-> { <<"c","h","o","p","o">> },
      Shopping |-> { <<"o","c","e","a","n"," ","r","a","i","n","b","o","w">>, <<"f","o","l","l","o","w","y","o","u","r","l","e","g","e","n","d">>, <<"f","a","r","m"," ","r","o","m","a">> },
      Lodging |-> { <<"m","o","t","e","l">> },
      Utilities |-> { <<"g","a","s"," ","t","i","j","u","a","n">>, <<"o","t","a","y"," ","m","e","s","a">>, <<"c","o","m","p","a","n","i","a"," ","g","a","s">> },
      Payment |-> { <<"p","a","y","m","e","n","t">>, <<"p","y","m">>, <<"c","a","p","i","t","a","l"," ","o","n","e"," ","m","o","b","i","l","e">> } ]
\* any(word in desc_lower for word in [...])
any_word_in(desc_lower, category) == \E word \in category_keywords[category] : Contains(desc_lower, word)
\* a variant that returns the alphabetically first category that has a keyword
\* in the description
categorize_alphabetically(desc_lower) ==
    LET names == << "Business", "Dining", "Groceries", "Healthcare", "Lodging", "Payment",
                    "Shopping", "Subscriptions", "Taxes", "Transportation", "Utilities" >>
        ks == {k \in 1..Len(names) : any_word_in(desc_lower, names[k])}
    IN IF ks = {} THEN "Other" ELSE names[CHOOSE k \in ks : \A j \in ks : k <= j]
\* lines 735-811: the tests in the order of the code
categorize_lower(desc_lower) ==
    IF any_word_in(desc_lower, "Taxes") THEN "Taxes"
    ELSE IF any_word_in(desc_lower, "Business") THEN "Business"
    ELSE IF any_word_in(desc_lower, "Dining") THEN "Dining"
    ELSE IF any_word_in(desc_lower, "Transportation") THEN "Transportation"
    ELSE IF any_word_in(desc_lower, "Groceries") THEN "Groceries"
    ELSE IF any_word_in(desc_lower, "Subscriptions") THEN "Subscriptions"
    ELSE IF any_word_in(desc_lower, "Healthcare") THEN "Healthcare"
    ELSE IF any_word_in(desc_lower, "Shopping") THEN "Shopping"
    ELSE IF any_word_in(desc_lower, "Lodging") THEN "Lodging"
    ELSE IF any_word_in(desc_lower, "Utilities") THEN "Utilities"
    ELSE IF any_word_in(desc_lower, "Payment") THEN "Payment"
    ELSE "Other"
\* CamelotProcessor.categorize_transaction
categorize_transaction(description) == categorize_lower(LowerS(description))

\* descriptions: one or two merchant phrases
MerchantPhrases ==
    { <<"F","R","A","N","C","H","I","S","E"," ","T","A","X"," ","B","O","A","R","D">>, <<"W","O","O","D"," ","C","I","T","Y">>, <<"U","B","E","R"," ","E","A","T","S">>, <<"U","B","E","R"," ","T","R","I","P">>, <<"W","A","L","M","A","R","T">>,
      <<"F","R","E","E","T","A","X","U","S","A">>, <<"N","e","t","f","l","i","x">>, <<"C","H","O","P","O">>, <<"F","A","R","M"," ","R","O","M","A">>, <<"M","O","T","E","L"," ","7","6">>, <<"O","T","A","Y"," ","M","E","S","A">>,
      <<"P","A","Y","M","E","N","T">>, <<"C","O","F","F","E","E"," ","S","H","O","P">> }
CategorizeInputs ==
    MerchantPhrases \cup { a \o <<" ">> \o b : a \in MerchantPhrases, b \in MerchantPhrases }

CategorizeTransaction ==
    /\ rp_parser = "none"
    /\ rp_parser' = "categorize_transaction"
    /\ rp_result' = [category |-> categorize_transaction(rp_input)]
    /\ UNCHANGED <<rp_input, rpOthers>>
CategorizeInit ==
    /\ rp_input \in CategorizeInputs /\ rp_parser = "none" /\ rp_result = <<>>
    /\ CapIdle /\ DdIdle /\ PdfIdle /\ EpIdle /\ ApiIdle
CategorizeNext == CategorizeTransaction
SpecCategorize == CategorizeInit /\ [][CategorizeNext]_vars

CategoryPriority ==
    << "Taxes", "Business", "Dining", "Transportation", "Groceries", "Subscriptions",
       "Healthcare", "Shopping", "Lodging", "Utilities", "Payment" >>
\* the priorities of the categories that have a keyword in the lower-cased description
MatchedPriorities ==
    {k \in 1..Len(CategoryPriority) :
        \E word \in category_keywords[CategoryPriority[k]] : Contains(LowerS(rp_input), word)}

\* C16: categorize_transaction returns the first category, in the order Taxes >
\* Business > Dining > Transportation > Groceries > Subscriptions > Healthcare >
\* Shopping > Lodging > Utilities > Payment, that has a keyword occurring in
\* the lower-cased description, and 'Other' when no category has one.
C16_FirstCategoryInPriorityOrder ==
    rp_parser = "categorize_transaction" =>
        IF MatchedPriorities = {} THEN rp_result.category = "Other"
        ELSE \E k \in MatchedPriorities :
                /\ \A j \in MatchedPriorities : k <= j
                /\ rp_result.category = CategoryPriority[k]
\* a description with keywords of Dining and of Payment is categorized as Dining
C16_Witness ==
    /\ rp_parser = "categorize_transaction"
    /\ rp_input = <<"P","A","Y","M","E","N","T"," ","U","B","E","R"," ","E","A","T","S">>
    /\ {3, 11} \subseteq MatchedPriorities
    /\ rp_result.category = "Dining"


(***************************************************************************)
(* api_server_real.py: uploads, the background task of each job and the    *)
(* progress web sockets. A job id (uuid4) is the next unused number, a     *)
(* content is a number and its hash the pair <<"sha256", content>>; a      *)
(* transaction is its amount in thousandths; timestamps are `now`.         *)
(***************************************************************************)
MaxJobs == 2
MaxContents == 2
Contents == 1..MaxContents
Filenames == { <<"m","a","y",".","c","s","v">>, <<"M","a","y",".","P","D","F">>, <<"n","o","t","e","s",".","t","x","t">> }
WebSockets == {"ws-1", "ws-2"}
\* the job whose progress the web sockets ask for
WatchedJobs == {1}
\* what the processor call can end in: a result, an exception or the timeout
ProcessorOutcomes ==
    { [transactions |-> <<>>], [transactions |-> <<[amount |-> -5000]>>],
      [raised |-> "processor error"], [raised |-> "timeout"] }

\* dict helpers: d[k] = v, d.update(e), del d[k], d.get(k, default)
Put(d, k, v) == (k :> v) @@ d
Update(d, e) == e @@ d
Del(d, k) == [x \in DOMAIN d \ {k} |-> d[x]]
Get(d, k, default) == IF k \in DOMAIN d THEN d[k] ELSE default

EndsWith(s, suffix) ==
    Len(s) >= Len(suffix) /\ SubSeq(s, Len(s) - Len(suffix) + 1, Len(s)) = suffix
\* lines 139 and 181: file.filename.lower().endswith(...)
is_csv(filename) == EndsWith(LowerS(filename), <<".","c","s","v">>)
is_supported(filename) == EndsWith(LowerS(filename), <<".","p","d","f">>) \/ is_csv(filename)
\* line 150: hashlib.sha256(file_content).hexdigest()
sha256(content) == <<"sha256", content>>
\* uuid.uuid4(): an id no job has
uuid4(jobs) == Cardinality(DOMAIN jobs) + 1
NoJob == 0
\* an upload that takes no content for a duplicate
no_existing_job(file_hash, hashes, jobs) == NoJob
\* lines 153-157: the job this hash was uploaded as, if it is still known
existing_job(file_hash, hashes, jobs) ==
    IF file_hash \in DOMAIN hashes /\ hashes[file_hash] \in DOMAIN jobs
    THEN hashes[file_hash] ELSE NoJob

\* ConnectionManager.send_job_update: the registered socket is sent the data;
\* if the send raises (the socket is no longer open) the job id is unregistered
connections_after_update(conns, socks, job_id) ==
    IF job_id \in DOMAIN conns /\ socks[conns[job_id]].pc # "open"
    THEN Del(conns, job_id) ELSE conns
\* the sockets after the update: `missed` records that a socket open on this
\* job was sent nothing
sockets_after_update(conns, socks, job_id) ==
    [w \in DOMAIN socks |->
        IF socks[w].pc = "open" /\ socks[w].job = job_id
                                /\ ~(job_id \in DOMAIN conns /\ conns[job_id] = w)
        THEN [socks[w] EXCEPT !.missed = TRUE]
        ELSE socks[w]]
\* the task of job_id sets fields of its job and pushes the update
JobStep(job_id, fields, pc_next, result) ==
    /\ processing_jobs' = Put(processing_jobs, job_id, Update(processing_jobs[job_id], fields))
    /\ tasks' = Put(tasks, job_id, [tasks[job_id] EXCEPT !.pc = pc_next, !.result = result])
JobUpdate(job_id, data) ==
    /\ active_connections' = connections_after_update(active_connections, sockets, job_id)
    /\ sockets' = sockets_after_update(active_connections, sockets, job_id)
    /\ response' = <<>>
TaskAt(job_id, kind, at) ==
    /\ job_id \in DOMAIN tasks
    /\ tasks[job_id].kind = kind
    /\ tasks[job_id].pc = at
\* a failure handler that also starts the progress over
error_fields_from_zero(error) ==
    [status |-> "error", error |-> error, completed_at |-> now, progress |-> 0]
\* lines 323-329 and 484-486: what the `except Exception` handler stores
error_fields(error) == [status |-> "error", error |-> error, completed_at |-> now]
apiRest == <<ip_job_counts, user_sessions, tokens_issued, now, apiOthers>>

\* upload_file
UploadFile(filename, content) ==
    /\ IF ~is_supported(filename)
       THEN /\ response' = [status_code |-> 400, detail |-> "Only PDF and CSV files are supported"]
            /\ UNCHANGED <<processing_jobs, file_hashes, tasks>>
       ELSE IF existing_job(sha256(content), file_hashes, processing_jobs) # NoJob
       THEN /\ response' =
                 [ status_code |-> 200,
                   job_id |-> existing_job(sha256(content), file_hashes, processing_jobs),
                   status |-> processing_jobs[file_hashes[sha256(content)]].status,
                   message |-> "Duplicate file detected. Returning existing job" ]
            /\ UNCHANGED <<processing_jobs, file_hashes, tasks>>
       ELSE /\ Cardinality(DOMAIN processing_jobs) < MaxJobs
            /\ file_hashes' = Put(file_hashes, sha256(content), uuid4(processing_jobs))
            /\ processing_jobs' =
                 Put(processing_jobs, uuid4(processing_jobs),
                     [ status |-> "processing", filename |-> filename,
                       file_hash |-> sha256(content), created_at |-> now, progress |-> 0 ])
            /\ tasks' = Put(tasks, uuid4(processing_jobs),
                            [ kind |-> IF is_csv(filename) THEN "csv" ELSE "pdf",
                              pc |-> "start", result |-> <<>> ])
            /\ response' = [ status_code |-> 200, job_id |-> uuid4(processing_jobs),
                             status |-> "processing", message |-> "Processing started" ]
    /\ UNCHANGED <<active_connections, sockets, apiRest>>

\* process_csv_file_async, lines 200-210
CsvStart(job_id) ==
    /\ TaskAt(job_id, "csv", "start")
    /\ JobStep(job_id, [status |-> "processing_csv", progress |-> 20], "save", <<>>)
    /\ JobUpdate(job_id, [status |-> "processing_csv", progress |-> 20])
    /\ UNCHANGED <<file_hashes, apiRest>>
\* lines 213-229: the temporary file is written
CsvSaved(job_id) ==
    /\ TaskAt(job_id, "csv", "save")
    /\ JobStep(job_id, [progress |-> 50], "process", <<>>)
    /\ JobUpdate(job_id, [status |-> "processing_csv", progress |-> 50])
    /\ UNCHANGED <<file_hashes, apiRest>>
\* lines 233-256: the processor returns within the timeout
CsvProcessed(job_id, result) ==
    /\ TaskAt(job_id, "csv", "process")
    /\ "transactions" \in DOMAIN result
    /\ JobStep(job_id, [status |-> "analyzing_transactions", progress |-> 80], "analyze", result)
    /\ JobUpdate(job_id, [status |-> "analyzing_transactions", progress |-> 80])
    /\ UNCHANGED <<file_hashes, apiRest>>
\* lines 258-319
CsvCompleted(job_id) ==
    /\ TaskAt(job_id, "csv", "analyze")
    /\ JobStep(job_id,
               [ status |-> "completed", progress |-> 100,
                 results |-> [ transactions |-> tasks[job_id].result.transactions,
                               summary |-> csv_job_summary(tasks[job_id].result.transactions) ],
                 completed_at |-> now ],
               "done", <<>>)
    /\ JobUpdate(job_id, [status |-> "completed", progress |-> 100])
    /\ UNCHANGED <<file_hashes, apiRest>>
\* lines 321-329: the file write or the processor raised, or the processor
\* timed out (lines 240-244); the error is str(e)
CsvFailed(job_id, error) ==
    /\ \/ TaskAt(job_id, "csv", "save") /\ error = "OSError"
       \/ TaskAt(job_id, "csv", "process") /\ error \in {"processor error", "timeout"}
    /\ JobStep(job_id, error_fields(error), "done", <<>>)
    /\ response' = <<>>
    /\ UNCHANGED <<file_hashes, active_connections, sockets, apiRest>>

\* process_pdf_with_camelot, lines 344-356
PdfStart(job_id) ==
    /\ TaskAt(job_id, "pdf", "start")
    /\ JobStep(job_id, [status |-> "extracting_tables", progress |-> 10], "save", <<>>)
    /\ JobUpdate(job_id, [status |-> "extracting_tables", progress |-> 10])
    /\ UNCHANGED <<file_hashes, apiRest>>
\* lines 359-375
PdfSaved(job_id) ==
    /\ TaskAt(job_id, "pdf", "save")
    /\ JobStep(job_id, [progress |-> 30], "process", <<>>)
    /\ JobUpdate(job_id, [status |-> "extracting_tables", progress |-> 30])
    /\ UNCHANGED <<file_hashes, apiRest>>
\* lines 379-402
PdfProcessed(job_id, result) ==
    /\ TaskAt(job_id, "pdf", "process")
    /\ "transactions" \in DOMAIN result
    /\ JobStep(job_id, [status |-> "analyzing_transactions", progress |-> 70], "analyze", result)
    /\ JobUpdate(job_id, [status |-> "analyzing_transactions", progress |-> 70])
    /\ UNCHANGED <<file_hashes, apiRest>>
\* lines 428-447: no transaction was extracted
PdfCompletedEmpty(job_id) ==
    /\ TaskAt(job_id, "pdf", "analyze")
    /\ tasks[job_id].result.transactions = <<>>
    /\ JobStep(job_id,
               [ status |-> "completed", progress |-> 100,
                 results |-> [transactions |-> <<>>, summary |-> pdf_job_summary(<<>>)] ],
               "done", <<>>)
    /\ response' = <<>>
    /\ UNCHANGED <<file_hashes, active_connections, sockets, apiRest>>
\* lines 449-481
PdfCompleted(job_id) ==
    /\ TaskAt(job_id, "pdf", "analyze")
    /\ tasks[job_id].result.transactions # <<>>
    /\ JobStep(job_id,
               [ status |-> "completed", progress |-> 100,
                 results |-> [ transactions |-> tasks[job_id].result.transactions,
                               summary |-> pdf_job_summary(tasks[job_id].result.transactions) ],
                 completed_at |-> now ],
               "done", <<>>)
    /\ JobUpdate(job_id, [status |-> "completed", progress |-> 100])
    /\ UNCHANGED <<file_hashes, apiRest>>
\* lines 483-487
PdfFailed(job_id, error) ==
    /\ \/ TaskAt(job_id, "pdf", "save") /\ error = "OSError"
       \/ TaskAt(job_id, "pdf", "process") /\ error \in {"processor error", "timeout"}
    /\ JobStep(job_id, error_fields(error), "done", <<>>)
    /\ response' = <<>>
    /\ UNCHANGED <<file_hashes, active_connections, sockets, apiRest>>

\* websocket_progress up to its first receive_text (lines 649-663):
\* ConnectionManager.connect registers the socket under the job id
WsConnect(w, job_id) ==
    /\ sockets[w].pc = "new"
    /\ active_connections' = Put(active_connections, job_id, w)
    /\ sockets' = Put(sockets, w, [sockets[w] EXCEPT !.pc = "open", !.job = job_id])
    /\ response' = <<>>
    /\ UNCHANGED <<processing_jobs, file_hashes, tasks, apiRest>>
\* lines 666-686: the client sent a text; the handler answers with the job's
\* status and returns once the job is completed or failed (before that the
\* answer changes nothing of the server)
WsReceive(w) ==
    /\ sockets[w].pc = "open"
    /\ sockets[w].job \in DOMAIN processing_jobs
    /\ processing_jobs[sockets[w].job].status \in {"completed", "error"}
    /\ sockets' = Put(sockets, w, [sockets[w] EXCEPT !.pc = "closed", !.missed = FALSE])
    /\ response' = <<>>
    /\ UNCHANGED <<processing_jobs, file_hashes, active_connections, tasks, apiRest>>
\* lines 688-692: the client went away; ConnectionManager.disconnect
WsDisconnect(w) ==
    /\ sockets[w].pc = "open"
    /\ active_connections' = Del(active_connections, sockets[w].job)
    /\ sockets' = Put(sockets, w, [sockets[w] EXCEPT !.pc = "closed", !.missed = FALSE])
    /\ response' = <<>>
    /\ UNCHANGED <<processing_jobs, file_hashes, tasks, apiRest>>

ApiInit ==
    /\ processing_jobs = <<>> /\ file_hashes = <<>> /\ active_connections = <<>>
    /\ tasks = <<>>
    /\ sockets = [w \in WebSockets |-> [pc |-> "new", job |-> NoJob, missed |-> FALSE]]
    /\ response = <<>>
    /\ ip_job_counts = <<>> /\ user_sessions = <<>> /\ tokens_issued = 0 /\ now = 0
    /\ CapIdle /\ RpIdle /\ DdIdle /\ PdfIdle /\ EpIdle
TaskNext(job_id) ==
    \/ CsvStart(job_id) \/ CsvSaved(job_id) \/ CsvCompleted(job_id)
    \/ PdfStart(job_id) \/ PdfSaved(job_id) \/ PdfCompletedEmpty(job_id) \/ PdfCompleted(job_id)
    \/ \E result \in ProcessorOutcomes : CsvProcessed(job_id, result) \/ PdfProcessed(job_id, result)
    \/ \E error \in {"OSError", "processor error", "timeout"} :
            CsvFailed(job_id, error) \/ PdfFailed(job_id, error)
ApiNext ==
    \/ \E filename \in Filenames : \E content \in Contents : UploadFile(filename, content)
    \/ \E job_id \in 1..MaxJobs : TaskNext(job_id)
    \/ \E w \in WebSockets : \E job_id \in WatchedJobs : WsConnect(w, job_id)
    \/ \E w \in WebSockets : WsReceive(w)
    \/ \E w \in WebSockets : WsDisconnect(w)
SpecApi == ApiInit /\ [][ApiNext]_vars
\* the scheduler runs every created task, and every processor call ends
SpecApiFair == SpecApi /\ \A job_id \in 1..MaxJobs : WF_vars(TaskNext(job_id))


(***************************************************************************)
(* Properties of the upload jobs of api_server_real.py (SpecApi)           *)
(***************************************************************************)
Terminal(job_id) ==
    job_id \in DOMAIN processing_jobs /\ processing_jobs[job_id].status \in {"completed", "error"}
IsDuplicateAnswer(r, job_id) ==
    /\ r # <<>> /\ r.status_code = 200
    /\ r.job_id = job_id
    /\ r.message = "Duplicate file detected. Returning existing job"
\* C22: uploading content whose SHA-256 hash was uploaded before creates no
\* new job and answers with the job id of the first upload of that content
\* and a duplicate message, whatever the (supported) filename and the job's
\* status; there is at most one job per content hash and file_hashes[hash]
\* always names that job.
C22_OneJobPerContent ==
    /\ [](/\ \A j1 \in DOMAIN processing_jobs : \A j2 \in DOMAIN processing_jobs :
                processing_jobs[j1].file_hash = processing_jobs[j2].file_hash => j1 = j2
          /\ \A j \in DOMAIN processing_jobs :
                /\ processing_jobs[j].file_hash \in DOMAIN file_hashes
                /\ file_hashes[processing_jobs[j].file_hash] = j
          /\ \A h \in DOMAIN file_hashes : file_hashes[h] \in DOMAIN processing_jobs)
    /\ [][/\ \A h \in DOMAIN file_hashes : h \in DOMAIN file_hashes' /\ file_hashes'[h] = file_hashes[h]
          /\ \A filename \in Filenames : \A content \in Contents :
                (/\ UploadFile(filename, content)
                 /\ is_supported(filename)
                 /\ sha256(content) \in DOMAIN file_hashes)
                => /\ processing_jobs' = processing_jobs
                   /\ IsDuplicateAnswer(response', file_hashes[sha256(content)])]_vars
\* the content of a failed job was uploaded again under another name and the
\* upload was answered with the failed job
C22_Witness ==
    /\ response # <<>> /\ response.status_code = 200
    /\ response.message = "Duplicate file detected. Returning existing job"
    /\ response.status = "error"
    /\ Cardinality(DOMAIN processing_jobs) = 1
    /\ processing_jobs[response.job_id].filename = <<"m","a","y",".","c","s","v">>
    /\ tasks[response.job_id].kind = "csv"

\* C28: every job created by an accepted upload eventually has the status
\* 'completed' or 'error' (the task is scheduled and the processor call
\* returns, raises or times out); once it has, its status never changes; its
\* progress never decreases and stays within 0..100.
C28_JobsEndAndStayEnded ==
    /\ \A job_id \in 1..MaxJobs : (job_id \in DOMAIN processing_jobs) ~> Terminal(job_id)
    /\ [](\A job_id \in DOMAIN processing_jobs : processing_jobs[job_id].progress \in 0..100)
    /\ [][\A job_id \in DOMAIN processing_jobs :
            /\ job_id \in DOMAIN processing_jobs'
            /\ Terminal(job_id) => processing_jobs'[job_id].status = processing_jobs[job_id].status
            /\ processing_jobs'[job_id].progress >= processing_jobs[job_id].progress]_vars
\* a CSV job that timed out and a PDF job that completed
C28_Witness ==
    /\ DOMAIN processing_jobs = {1, 2}
    /\ \E j \in {1, 2} : /\ tasks[j].kind = "csv" /\ processing_jobs[j].status = "error"
                         /\ processing_jobs[j].error = "timeout" /\ processing_jobs[j].progress = 50
    /\ \E j \in {1, 2} : /\ tasks[j].kind = "pdf" /\ processing_jobs[j].status = "completed"
                         /\ processing_jobs[j].progress = 100

\* C29: a job whose status is 'completed' has progress 100, a results record
\* and completed_at; a job whose status is 'error' has an error message and
\* completed_at; on every completion path, a PDF without transactions included.
C29_EndedJobsAreStamped ==
    \A job_id \in DOMAIN processing_jobs :
        /\ processing_jobs[job_id].status = "completed" =>
              /\ processing_jobs[job_id].progress = 100
              /\ "results" \in DOMAIN processing_jobs[job_id]
              /\ "completed_at" \in DOMAIN processing_jobs[job_id]
        /\ processing_jobs[job_id].status = "error" =>
              /\ "error" \in DOMAIN processing_jobs[job_id]
              /\ "completed_at" \in DOMAIN processing_jobs[job_id]

\* C30: a web socket that is connected to a job's progress channel is the one
\* registered in active_connections for that job and is sent every
\* send_job_update of the job, whatever other sockets connect to or
\* disconnect from the same job id.
C30_ConnectedSocketStaysRegistered ==
    \A w \in WebSockets :
        sockets[w].pc = "open" =>
            /\ sockets[w].job \in DOMAIN active_connections
            /\ active_connections[sockets[w].job] = w
            /\ ~sockets[w].missed


(***************************************************************************)
(* get_transactions of api_server_real.py and of api_server_secure.py,     *)
(* asked for the jobs of a job store. A job record holds the keys it was   *)
(* stored with; an answer is the HTTPException raised, the body returned   *)
(* or the exception that left the handler.                                 *)
(***************************************************************************)
StoredResults ==
    [ transactions |-> <<[amount |-> -5000]>>, metadata |-> [filename |-> <<"m","a","y",".","c","s","v">>],
      summary |-> csv_job_summary(<<[amount |-> -5000]>>) ]
\* the job records a store can hold: those the tasks write and those of
\* tests/test_api_endpoints.py (lines 364-368, 378-381 and 759-762)
StoredJobs ==
    { [status |-> "processing", progress |-> 50],
      [status |-> "analyzing_transactions", progress |-> 80],
      [status |-> "error", error |-> "No tables found"],
      [status |-> "error"],
      [status |-> "completed", progress |-> 100, results |-> StoredResults],
      [status |-> "completed", progress |-> 100, results |-> [transactions |-> <<>>]],
      [status |-> "completed", results |-> None],
      [status |-> "completed"] }
StoredJobIds == {"job-a", "job-b"}
AskedJobIds == StoredJobIds \cup {"non-existent-job"}
JobStores == UNION { [ids -> StoredJobs] : ids \in SUBSET StoredJobIds }

HTTPException(status_code, detail) == [status_code |-> status_code, detail |-> detail]
\* lines 552-558 (api_server_secure.py lines 516-522)
transactions_body(job_id, results) ==
    [ status_code |-> 200, job_id |-> job_id, status |-> "completed",
      transactions |-> Get(results, "transactions", <<>>),
      metadata |-> Get(results, "metadata", <<>>),
      summary |-> Get(results, "summary", <<>>) ]
\* api_server_real.py get_transactions
get_transactions(jobs, job_id) ==
    IF job_id \notin DOMAIN jobs THEN HTTPException(404, <<"Job not found">>)
    ELSE IF jobs[job_id].status = "error"
    THEN HTTPException(500, <<"Processing failed: ", Get(jobs[job_id], "error", "Unknown error")>>)
    ELSE IF jobs[job_id].status # "completed"
    THEN HTTPException(202, <<"Processing still in progress: ", jobs[job_id].status>>)
    ELSE IF Get(jobs[job_id], "results", <<>>) = None
    THEN [raised |-> "AttributeError: 'NoneType' object has no attribute 'get'"]
    ELSE transactions_body(job_id, Get(jobs[job_id], "results", <<>>))
\* api_server_secure.py get_transactions
secure_get_transactions(jobs, job_id) ==
    IF job_id \notin DOMAIN jobs THEN HTTPException(404, <<"Job not found">>)
    ELSE IF jobs[job_id].status = "error"
    THEN HTTPException(500, <<"Processing failed: ", Get(jobs[job_id], "error", "Unknown error")>>)
    ELSE IF jobs[job_id].status # "completed"
    THEN HTTPException(202, <<"Processing still in progress: ", jobs[job_id].status>>)
    ELSE IF Get(jobs[job_id], "results", None) = None
    THEN HTTPException(500, <<"Processing results not available">>)
    ELSE transactions_body(job_id, jobs[job_id].results)

GetTransactions(job_id) ==
    /\ response' = [server |-> "api_server_real", job_id |-> job_id,
                    answer |-> get_transactions(processing_jobs, job_id)]
    /\ UNCHANGED <<processing_jobs, file_hashes, active_connections, tasks, sockets, apiRest>>
SecureGetTransactions(job_id) ==
    /\ response' = [server |-> "api_server_secure", job_id |-> job_id,
                    answer |-> secure_get_transactions(processing_jobs, job_id)]
    /\ UNCHANGED <<processing_jobs, file_hashes, active_connections, tasks, sockets, apiRest>>

TransactionsInit ==
    /\ processing_jobs \in JobStores
    /\ file_hashes = <<>> /\ active_connections = <<>> /\ tasks = <<>> /\ sockets = <<>>
    /\ response = <<>>
    /\ ip_job_counts = <<>> /\ user_sessions = <<>> /\ tokens_issued = 0 /\ now = 0
    /\ CapIdle /\ RpIdle /\ DdIdle /\ PdfIdle /\ EpIdle
TransactionsNext ==
    \E job_id \in AskedJobIds : GetTransactions(job_id) \/ SecureGetTransactions(job_id)
SpecTransactions == TransactionsInit /\ [][TransactionsNext]_vars

\* the answer is an HTTP response with this status code
Answers(answer, status_code) ==
    "status_code" \in DOMAIN answer /\ answer.status_code = status_code
\* C23: GET /api/transactions/{job_id} answers 404 for an unknown job id, 500
\* with the job's error text for a job in 'error', 202 for a job that is not
\* yet 'completed', 200 with the stored transactions, metadata and summary
\* for a 'completed' job with results, and a well-formed 500 (no unhandled
\* exception) for a 'completed' job whose results are None; the request
\* never changes the job.
C23_AnswersByJobState ==
    /\ [](response # <<>> =>
            LET job_id == response.job_id
                answer == response.answer
                known == job_id \in DOMAIN processing_jobs
                job == processing_jobs[job_id]
            IN /\ ~known => Answers(answer, 404)
               /\ (known /\ job.status = "error") =>
                     /\ Answers(answer, 500)
                     /\ "error" \in DOMAIN job => answer.detail[2] = job.error
               /\ (known /\ job.status \notin {"error", "completed"}) => Answers(answer, 202)
               /\ (known /\ job.status = "completed" /\ "results" \in DOMAIN job) =>
                     IF job.results = None THEN Answers(answer, 500)
                     ELSE /\ Answers(answer, 200)
                          /\ answer.transactions = Get(job.results, "transactions", <<>>)
                          /\ answer.metadata = Get(job.results, "metadata", <<>>)
                          /\ answer.summary = Get(job.results, "summary", <<>>))
    /\ [][processing_jobs' = processing_jobs]_vars


(***************************************************************************)
(* api_server_secure.py: bearer sessions, the job limit per IP, uploads    *)
(* and the background tasks with their counter clean-up. Time is counted   *)
(* in hours; a session token (uuid4) is <<"token", n>> for the next unused *)
(* n. The slowapi rate limits and the file size limit are left out: they   *)
(* reject a request before it touches the jobs. Of a job the fields that   *)
(* the handlers read are kept; its timestamps are left out.                *)
(***************************************************************************)
MAX_CONCURRENT_JOBS_PER_IP == 3
IP_LIMIT_RESET_HOURS == 1
SESSION_HOURS == 24
MaxSecureJobs == 4
MaxTokens == 2
MaxUploadHours == 2
MaxSessionHours == 26
IPs == {"192.168.1.100"}
NoCredentials == <<>>
Tokens == {<<"token", n>> : n \in 1..MaxTokens}
Credentials == Tokens \cup {NoCredentials, <<"invalid_token">>}
\* the demo_users of lines 309-313 and a wrong password
Logins == { [email |-> "demo@example.com", password |-> "demo123"],
            [email |-> "demo@example.com", password |-> "wrong"] }
demo_users == { [email |-> "demo@example.com", password |-> "demo123"],
                [email |-> "test@financiai.com", password |-> "test123"],
                [email |-> "admin@financiai.com", password |-> "admin123"] }

\* a variant that keeps the expired session
get_current_user_keeping_sessions(credentials, sessions, t) ==
    [ user |-> /\ credentials # NoCredentials /\ credentials \in DOMAIN sessions
               /\ t < sessions[credentials].expires_at,
      sessions |-> sessions ]
\* get_current_user_optional: is the request authenticated, and the sessions
\* it leaves behind
get_current_user_optional(credentials, sessions, t) ==
    IF credentials = NoCredentials \/ credentials \notin DOMAIN sessions
    THEN [user |-> FALSE, sessions |-> sessions]
    ELSE IF t < sessions[credentials].expires_at
    THEN [user |-> TRUE, sessions |-> sessions]
    ELSE [user |-> FALSE, sessions |-> Del(sessions, credentials)]

\* ip_job_counts[ip] of the defaultdict of line 143
ip_data_of(counts, ip, t) ==
    IF ip \in DOMAIN counts THEN counts[ip] ELSE [count |-> 0, reset_time |-> t]
\* the statuses line 201 (and line 542) takes for active
counted_statuses == {"processing", "extracting_tables", "analyzing_transactions"}
counted_jobs(jobs, ip) ==
    Cardinality({ j \in DOMAIN jobs : /\ jobs[j].ip_address = ip
                                      /\ jobs[j].status \in counted_statuses })
\* lines 193-195: the hourly reset
after_reset(ip_data, t) ==
    IF t > ip_data.reset_time + IP_LIMIT_RESET_HOURS
    THEN [count |-> 0, reset_time |-> t] ELSE ip_data
\* check_ip_job_limit: what it returns and the counters it leaves behind
check_ip_job_limit(ip, counts, jobs, t) ==
    IF after_reset(ip_data_of(counts, ip, t), t).count >= MAX_CONCURRENT_JOBS_PER_IP
    THEN [ allowed |-> ~(counted_jobs(jobs, ip) >= MAX_CONCURRENT_JOBS_PER_IP),
           counts |-> Put(counts, ip, [ after_reset(ip_data_of(counts, ip, t), t)
                                          EXCEPT !.count = counted_jobs(jobs, ip) ]) ]
    ELSE [ allowed |-> TRUE,
           counts |-> Put(counts, ip, after_reset(ip_data_of(counts, ip, t), t)) ]
\* lines 427-428 and 733-735: the counter of the ip, one up or one down
counted_up(counts, ip, t) ==
    Put(counts, ip, [ip_data_of(counts, ip, t) EXCEPT !.count = @ + 1])
counted_down(counts, ip, t) ==
    Put(counts, ip, [ip_data_of(counts, ip, t) EXCEPT !.count = IF @ > 0 THEN @ - 1 ELSE @])

\* login
Login(login_request) ==
    /\ IF login_request \in demo_users
       THEN /\ tokens_issued < MaxTokens
            /\ tokens_issued' = tokens_issued + 1
            /\ user_sessions' = Put(user_sessions, <<"token", tokens_issued + 1>>,
                                    [expires_at |-> now + SESSION_HOURS])
            /\ response' = [status_code |-> 200, token |-> <<"token", tokens_issued + 1>>]
       ELSE /\ response' = [status_code |-> 401, detail |-> "Invalid email or password"]
            /\ UNCHANGED <<user_sessions, tokens_issued>>
    /\ UNCHANGED <<processing_jobs, file_hashes, active_connections, tasks, sockets,
                   ip_job_counts, now, apiOthers>>
\* get_metrics behind get_current_user_optional
GetMetrics(credentials) ==
    /\ user_sessions' = get_current_user_optional(credentials, user_sessions, now).sessions
    /\ response' =
         IF get_current_user_optional(credentials, user_sessions, now).user
         THEN [status_code |-> 200, credentials |-> credentials]
         ELSE [ status_code |-> 401, credentials |-> credentials,
                detail |-> "Authentication required for metrics access" ]
    /\ UNCHANGED <<processing_jobs, file_hashes, active_connections, tasks, sockets,
                   ip_job_counts, tokens_issued, now, apiOthers>>
\* hours pass
Tick(hours, last_hour) ==
    /\ now + hours <= last_hour
    /\ now' = now + hours
    /\ response' = <<>>
    /\ UNCHANGED <<processing_jobs, file_hashes, active_connections, tasks, sockets,
                   ip_job_counts, user_sessions, tokens_issued, apiOthers>>

\* the user and the limit as a request meets them
current_user(credentials) == get_current_user_optional(credentials, user_sessions, now).user
limit(ip) == check_ip_job_limit(ip, ip_job_counts, processing_jobs, now)
\* upload_file of api_server_secure.py
SecureUploadFile(ip, credentials, filename, content) ==
    /\ user_sessions' = get_current_user_optional(credentials, user_sessions, now).sessions
    /\ IF ~is_supported(filename)
       THEN /\ response' = [status_code |-> 400, detail |-> "Only PDF and CSV files are supported"]
            /\ UNCHANGED <<processing_jobs, file_hashes, tasks, ip_job_counts>>
       ELSE IF existing_job(sha256(content), file_hashes, processing_jobs) # NoJob
       THEN /\ response' = [ status_code |-> 200,
                             message |-> "Duplicate file detected. Returning existing job" ]
            /\ UNCHANGED <<processing_jobs, file_hashes, tasks, ip_job_counts>>
       ELSE IF ~current_user(credentials) /\ ~limit(ip).allowed
       THEN /\ response' = [status_code |-> 429, detail |-> "Too many concurrent uploads"]
            /\ ip_job_counts' = limit(ip).counts
            /\ UNCHANGED <<processing_jobs, file_hashes, tasks>>
       ELSE /\ Cardinality(DOMAIN processing_jobs) < MaxSecureJobs
            /\ file_hashes' = Put(file_hashes, sha256(content), uuid4(processing_jobs))
            /\ processing_jobs' =
                 Put(processing_jobs, uuid4(processing_jobs),
                     [ status |-> "processing", filename |-> filename,
                       file_hash |-> sha256(content), ip_address |-> ip,
                       is_authenticated |-> current_user(credentials), progress |-> 0 ])
            /\ ip_job_counts' = IF current_user(credentials) THEN ip_job_counts
                                ELSE counted_up(limit(ip).counts, ip, now)
            /\ tasks' = Put(tasks, uuid4(processing_jobs),
                            [ kind |-> IF is_csv(filename) THEN "csv" ELSE "pdf",
                              pc |-> "start", result |-> <<>> ])
            /\ response' = [status_code |-> 200, message |-> "Processing started"]
    /\ UNCHANGED <<active_connections, sockets, tokens_issued, now, apiOthers>>

\* the statuses and the progress of the two tasks, step by step
started(kind) ==
    IF kind = "csv" THEN [status |-> "processing_csv", progress |-> 20]
    ELSE [status |-> "extracting_tables", progress |-> 10]
saved(kind) == IF kind = "csv" THEN [progress |-> 50] ELSE [progress |-> 30]
secureRest == <<file_hashes, user_sessions, tokens_issued, now, apiOthers>>
\* lines 733-735 and 875-877: the clean-up of the finally block
counts_after_job(job, counts, t) ==
    IF job.is_authenticated THEN counts ELSE counted_down(counts, job.ip_address, t)
\* No websocket is connected here, so send_job_update returns without a pause
\* and a task is suspended in three places only: before it first runs, in the
\* file write, and in the processor call.
\* process_csv_file_async lines 608-626, process_pdf_with_camelot lines 751-770
SecureStart(job_id) ==
    /\ job_id \in DOMAIN tasks /\ tasks[job_id].pc = "start"
    /\ JobStep(job_id, started(tasks[job_id].kind), "save", <<>>)
    /\ JobUpdate(job_id, started(tasks[job_id].kind))
    /\ UNCHANGED <<ip_job_counts, secureRest>>
\* lines 628-646 and 772-790
SecureSaved(job_id) ==
    /\ job_id \in DOMAIN tasks /\ tasks[job_id].pc = "save"
    /\ JobStep(job_id, saved(tasks[job_id].kind), "process", <<>>)
    /\ JobUpdate(job_id, saved(tasks[job_id].kind))
    /\ UNCHANGED <<ip_job_counts, secureRest>>
\* lines 651-720, 731-735 and 795-864, 873-877: the processor has returned; the
\* job is completed ("analyzing_transactions" is set and overwritten without a
\* pause) and the counter of its ip cleaned up
SecureCompleted(job_id, result) ==
    /\ job_id \in DOMAIN tasks /\ tasks[job_id].pc = "process"
    /\ JobStep(job_id,
               [ status |-> "completed", progress |-> 100,
                 results |-> [ transactions |-> result.transactions,
                               summary |-> csv_job_summary(result.transactions) ] ],
               "done", <<>>)
    /\ JobUpdate(job_id, [status |-> "completed", progress |-> 100])
    /\ ip_job_counts' = counts_after_job(processing_jobs[job_id], ip_job_counts, now)
    /\ UNCHANGED secureRest
\* lines 648-652, 722-735 and 792-796, 866-877: the processor raised or timed
\* out; the handler and the clean-up run without a pause
SecureFailed(job_id, error) ==
    /\ job_id \in DOMAIN tasks /\ tasks[job_id].pc = "process"
    /\ JobStep(job_id, [status |-> "error", error |-> error], "done", <<>>)
    /\ ip_job_counts' = counts_after_job(processing_jobs[job_id], ip_job_counts, now)
    /\ response' = <<>>
    /\ UNCHANGED <<active_connections, sockets, secureRest>>

SecureInit ==
    /\ processing_jobs = <<>> /\ file_hashes = <<>> /\ active_connections = <<>>
    /\ tasks = <<>> /\ sockets = <<>> /\ response = <<>>
    /\ ip_job_counts = <<>> /\ user_sessions = <<>> /\ tokens_issued = 0 /\ now = 0
    /\ CapIdle /\ RpIdle /\ DdIdle /\ PdfIdle /\ EpIdle
\* what the processor hands back when it succeeds
SecureOutcomes == {r \in ProcessorOutcomes : "transactions" \in DOMAIN r /\ r.transactions # <<>>}
\* The clients of this specification hold no session (no login happens), the
\* time passes in steps that end the reset window of a counter.
\* the content that was uploaded last, or the next new one
UploadContents ==
    {Cardinality(DOMAIN file_hashes), Cardinality(DOMAIN file_hashes) + 1} \ {0}
SecureNext ==
    \/ \E ip \in IPs : \E credentials \in {NoCredentials} : \E filename \in Filenames :
        \E content \in UploadContents : SecureUploadFile(ip, credentials, filename, content)
    \/ Tick(IP_LIMIT_RESET_HOURS + 1, MaxUploadHours)
    \/ \E job_id \in 1..MaxSecureJobs :
        \/ SecureStart(job_id) \/ SecureSaved(job_id)
        \/ \E result \in SecureOutcomes : SecureCompleted(job_id, result)
        \/ \E error \in {"timeout"} : SecureFailed(job_id, error)
SpecSecure == SecureInit /\ [][SecureNext]_vars

AuthNext ==
    \/ \E login_request \in Logins : Login(login_request)
    \/ \E credentials \in Credentials : GetMetrics(credentials)
    \/ Tick(1, MaxSessionHours)
SpecAuth == SecureInit /\ [][AuthNext]_vars


(***************************************************************************)
(* The job limit per IP of api_server_secure.py                            *)
(***************************************************************************)
\* is the counter of the ip inside its reset window at the present hour
in_reset_window(ip) ==
    ~(now > ip_data_of(ip_job_counts, ip, now).reset_time + IP_LIMIT_RESET_HOURS)
\* the jobs of an ip that unauthenticated uploads started and that have not ended
active_unauthenticated_jobs(ip) ==
    { job_id \in DOMAIN processing_jobs :
        /\ processing_jobs[job_id].ip_address = ip
        /\ ~processing_jobs[job_id].is_authenticated
        /\ processing_jobs[job_id].status \notin {"completed", "error"} }

\* C24: in every state of processing_jobs, check_ip_job_limit(ip) returns True
\* while the counter of the ip is below MAX_CONCURRENT_JOBS_PER_IP, returns
\* False when the counter has reached MAX_CONCURRENT_JOBS_PER_IP inside the
\* reset window, and returns True once the reset window is over and the counter
\* is set back to 0.
C24_LimitFollowsCounter ==
    \A ip \in IPs :
        /\ ip_data_of(ip_job_counts, ip, now).count < MAX_CONCURRENT_JOBS_PER_IP
             => limit(ip).allowed
        /\ (in_reset_window(ip)
             /\ ip_data_of(ip_job_counts, ip, now).count >= MAX_CONCURRENT_JOBS_PER_IP)
             => ~limit(ip).allowed
        /\ ~in_reset_window(ip) => limit(ip).allowed

\* C25: at no time has one IP more than MAX_CONCURRENT_JOBS_PER_IP active
\* (not completed, not failed) jobs that unauthenticated uploads started.
C25_ActiveJobsPerIpBounded ==
    \A ip \in IPs :
        Cardinality(active_unauthenticated_jobs(ip)) <= MAX_CONCURRENT_JOBS_PER_IP


(***************************************************************************)
(* Bearer sessions of api_server_secure.py                                 *)
(***************************************************************************)
\* the step answers a request to /api/metrics that carried `credentials`
MetricsAnswered(credentials) ==
    /\ "credentials" \in DOMAIN response'
    /\ response'.credentials = credentials
\* the session of the token has run out
Expired(token) ==
    /\ token \in DOMAIN user_sessions
    /\ ~(now < user_sessions[token].expires_at)
\* /api/metrics has just accepted the token
AuthenticatedAs(token) ==
    /\ "credentials" \in DOMAIN response
    /\ response.credentials = token
    /\ response.status_code = 200

\* C26: a request with a bearer token is authenticated only if the token is in
\* user_sessions and its session has not expired; a token whose session has
\* expired gets 401 from /api/metrics and is removed from user_sessions, and is
\* never authenticated afterwards; an unknown token gets 401 and changes
\* nothing.
C26_OnlyLiveSessionsAuthenticate ==
    /\ [][ \A credentials \in Credentials \ {NoCredentials} :
             MetricsAnswered(credentials) =>
               /\ response'.status_code = 200 =>
                    /\ credentials \in DOMAIN user_sessions
                    /\ now < user_sessions[credentials].expires_at
               /\ Expired(credentials) =>
                    /\ response'.status_code = 401
                    /\ user_sessions' = Del(user_sessions, credentials)
               /\ credentials \notin DOMAIN user_sessions =>
                    /\ response'.status_code = 401
                    /\ user_sessions' = user_sessions ]_vars
    /\ \A token \in Tokens : [](Expired(token) => [](~AuthenticatedAs(token)))
\* an expired token was presented, answered 401 and removed
C26_Witness ==
    /\ tokens_issued >= 1
    /\ ~(now < SESSION_HOURS)
    /\ <<"token", 1>> \notin DOMAIN user_sessions
    /\ "credentials" \in DOMAIN response
    /\ response.credentials = <<"token", 1>>
    /\ response.status_code = 401

====
